---- MODULE Spec2Model ----
(***************************************************************************)
(* State-machine model of the rlite control device (kernel/ctrl-dev.c):    *)
(* per-device upstream queues, the IPCP table, DIFs, registered            *)
(* applications, flows with their put-queue and removal queue.             *)
(* Every message handler is one atomic action; the put-queue timer and     *)
(* the removal workers are actions of their own.  A handler is written as  *)
(* a composition of operators over a state record S, one operator per C    *)
(* function, so that the order of the calls in the source is kept.         *)
(* Memory allocation is assumed to succeed.                                *)
(***************************************************************************)
EXTENDS Integers, Sequences, FiniteSets, TLC

(***************************************************************************)
(* Bounds of the model.                                                    *)
(***************************************************************************)
NumRc == 2          \* control devices that can be open at once
MaxOps == 4         \* requests written to the control devices in one behaviour
MaxFlowOps == 3     \* the same, in the flow allocation specification
MaxMsgs == 3        \* raw messages appended in the upstream-queue specification
NumIpcpIds == 2     \* bits of the IPCP id bitmap (IPCP_ID_BITMAP_SIZE, scaled)
NumThreads == 2     \* threads that may run rl_flow_dealloc() at the same time
NumPortIds == 2     \* bits of the port id bitmap (PORT_ID_BITMAP_SIZE, scaled)
MaxUid == 2         \* cap on dm->uid_cnt, i.e. on the flows ever created
MaxJiffies == 2     \* cap on the clock
MsgSerLen == 10000  \* serialized length of a control message

Rcs == 1..NumRc
NULL == 0
IpcpIds == 0..(NumIpcpIds - 1)
PortIds == 0..(NumPortIds - 1)
Threads == 1..NumThreads
NumCepIds == NumPortIds     \* CEP_ID_BITMAP_SIZE is PORT_ID_BITMAP_SIZE

(***************************************************************************)
(* Program constants.                                                      *)
(***************************************************************************)
RL_UPQUEUE_SIZE_MAX == 16384
UPQENTRY_HDR == 32  \* sizeof(struct upqueue_entry): two words and a list_head
ENOSPC == -28
ENOBUFS == -105
EAGAIN == -11
ERESTARTSYS == -512
ENOSYS == -38
ERANGE == -34
EFAULT == -14
ENXIO == -6
EINVAL == -22
EBUSY == -16
EPERM == -1
RLITE_SUCC == 0
RLITE_ERR == 1
RL_F_IPCPS == 1
IPCP_HASHTABLE_BITS == 6
RL_UNBOUND_FLOW_TO == 2     \* unbound-flow timeout, in clock ticks
FLOW_DEL_WAIT == 1          \* ipcp->flow_del_wait_ms, in clock ticks
NO_EXPIRY == -1             \* flow->expires == ~0U: not in the put-queue
NO_ID == -1                 \* no IPCP (0xffff as upper_ipcp_id in requests)
RL_PORT_ID_NONE == -1       \* not a valid port-id
RL_ADDR_NULL == 0           \* not a valid address

\* Inputs of the requests.
IpcpNames == {"x", "y"}
DifNames == {"d1", "d2"}
NoName == ""                \* a NULL string
DifTypes == {"normal", "shim", "none"}
ApplNames == {"a", "b"}
EventIds == {1, 2}
\* Serialized lengths of the raw messages and caller buffer lengths used to
\* exercise the upstream queue.
SerLens == {40, 8160, 16312}
BufLens == {0, 40, 16352}
\* Devices exercised by the upstream-queue specification.
UpqRcs == {1, 2}

VARIABLES
    rc_open,        \* rc_open[rc]: the struct rl_ctrl exists (opened, not released)
    rc_fd,          \* rc_fd[rc]: the user still holds the file descriptor
    rc_fcnt,        \* rc_fcnt[rc]: reference count of rc->file
    rc_flags,       \* rc_flags[rc]: rc->flags (RL_F_IPCPS)
    flows_fetch_q,  \* flows_fetch_q[rc]: responses of the fetch cycle under way
    upqueue,        \* upqueue[rc]: sequence of upqueue entries (head first)
    upqueue_size,   \* upqueue_size[rc]: rc->upqueue_size
    ipcp_table,     \* dm->ipcp_table: linked IPCP id -> ipcp_entry
    ipcp_id_bitmap, \* dm->ipcp_id_bitmap: set of the bits that are set
    difs,           \* dm->difs: sequence of [name, ty, refcnt]
    appl_removeq,   \* dm->appl_removeq: registered_appl awaiting appl_del
    flows,          \* allocated flow_entry objects: object id -> flow_entry
    flow_table,     \* dm->flow_table: linked port id -> object id
    port_id_bitmap, \* dm->port_id_bitmap: set of the bits that are set
    flow_table_by_cep, \* dm->flow_table_by_cep: linked CEP id -> object id
    cep_id_bitmap,  \* dm->cep_id_bitmap: set of the bits that are set
    flows_putq,     \* dm->flows_putq: object ids, ascending expiry
    flows_putq_tmr, \* dm->flows_putq_tmr: expiry when pending, else NO_EXPIRY
    flows_removeq,  \* dm->flows_removeq: object ids awaiting flow_del
    uid_cnt,        \* dm->uid_cnt
    dm_refcnt,      \* dm->refcnt; 0 when no rl_dm exists
    jiffies,        \* the clock
    last,           \* the last operation executed, with its inputs and result
    app_log,        \* app_log[rc]: entries successfully appended since open
    read_log,       \* read_log[rc]: entries returned by successful reads
    msg_cnt,        \* raw messages generated so far
    nops,           \* requests written so far
    dealloc_call,   \* per thread, the rl_flow_dealloc() call it is executing
    flows_lock,     \* dm->flows_lock: "free", or the context holding it
    drain_call,     \* the flows_putq_drain() call the timer is executing
    rio_flow,       \* rio->flow of the I/O device: the flow bound, or NO_ID
    write_call      \* per thread, the write or ioctl call it is executing

ctrl_vars == <<rc_open, rc_fd, rc_fcnt, rc_flags, flows_fetch_q>>
upq_vars == <<upqueue, upqueue_size>>
ipcp_vars == <<ipcp_table, ipcp_id_bitmap, difs, appl_removeq>>
flow_vars == <<flows, flow_table, port_id_bitmap, flow_table_by_cep,
               cep_id_bitmap, flows_putq, flows_putq_tmr, flows_removeq,
               uid_cnt>>
hist_vars == <<app_log, read_log, msg_cnt>>

\* A thread that is not inside rl_flow_dealloc().
NoCall == [pc |-> "idle"]

\* A process holding the descriptor of rc writes one more request.
CanWrite(rc) == rc_open[rc] /\ rc_fd[rc] /\ nops < MaxOps
Written == nops' = nops + 1 /\ UNCHANGED <<jiffies, hist_vars, dealloc_call, flows_lock, drain_call, rio_flow, write_call>>
vars == <<rc_open, rc_fd, rc_fcnt, rc_flags, flows_fetch_q, upqueue,
          upqueue_size,
          ipcp_table, ipcp_id_bitmap, difs, appl_removeq, flows, flow_table,
          port_id_bitmap, flow_table_by_cep, cep_id_bitmap, flows_putq,
          flows_putq_tmr, flows_removeq, uid_cnt, dm_refcnt,
          jiffies, last, app_log, read_log, msg_cnt, nops, dealloc_call,
          flows_lock, drain_call, rio_flow, write_call>>

\* The state as a record; ret is the return value of the last call and val
\* its output parameter.
St ==
    [rc_open |-> rc_open, rc_fd |-> rc_fd, rc_fcnt |-> rc_fcnt,
     rc_flags |-> rc_flags, flows_fetch_q |-> flows_fetch_q,
     upqueue |-> upqueue,
     upqueue_size |-> upqueue_size, ipcp_table |-> ipcp_table,
     ipcp_id_bitmap |-> ipcp_id_bitmap, difs |-> difs,
     appl_removeq |-> appl_removeq, flows |-> flows,
     flow_table |-> flow_table, port_id_bitmap |-> port_id_bitmap,
     flow_table_by_cep |-> flow_table_by_cep,
     cep_id_bitmap |-> cep_id_bitmap,
     flows_putq |-> flows_putq, flows_putq_tmr |-> flows_putq_tmr,
     flows_removeq |-> flows_removeq, uid_cnt |-> uid_cnt,
     dm_refcnt |-> dm_refcnt,
     jiffies |-> jiffies, ret |-> 0, val |-> NO_ID]

Commit(S) ==
    /\ rc_open' = S.rc_open
    /\ rc_fd' = S.rc_fd
    /\ rc_fcnt' = S.rc_fcnt
    /\ rc_flags' = S.rc_flags
    /\ flows_fetch_q' = S.flows_fetch_q
    /\ upqueue' = S.upqueue
    /\ upqueue_size' = S.upqueue_size
    /\ ipcp_table' = S.ipcp_table
    /\ ipcp_id_bitmap' = S.ipcp_id_bitmap
    /\ difs' = S.difs
    /\ appl_removeq' = S.appl_removeq
    /\ flows' = S.flows
    /\ flow_table' = S.flow_table
    /\ port_id_bitmap' = S.port_id_bitmap
    /\ flow_table_by_cep' = S.flow_table_by_cep
    /\ cep_id_bitmap' = S.cep_id_bitmap
    /\ flows_putq' = S.flows_putq
    /\ flows_putq_tmr' = S.flows_putq_tmr
    /\ flows_removeq' = S.flows_removeq
    /\ uid_cnt' = S.uid_cnt
    /\ dm_refcnt' = S.dm_refcnt

SetRet(S, r) == [S EXCEPT !.ret = r]

\* Bind(e, F) is F applied to the value of e: the state a call produces is
\* computed once and named, as the C code names it by mutating memory.
Only(set) == CHOOSE r \in set : TRUE
Bind(e, F(_)) == Only({F(S) : S \in {e}})

(***************************************************************************)
(* Lists, hash tables and bitmaps.                                         *)
(***************************************************************************)
list_add(q, e) == <<e>> \o q
list_add_tail(q, e) == Append(q, e)
list_del(q, i) == SubSeq(q, 1, i - 1) \o SubSeq(q, i + 1, Len(q))

hash_add(t, k, v) == [x \in DOMAIN t \cup {k} |-> IF x = k THEN v ELSE t[x]]
hash_del(t, k) == [x \in DOMAIN t \ {k} |-> t[x]]
EmptyTable == [x \in {} |-> 0]

\* bitmap_set(bitmap, bit, 1) and bitmap_clear(bitmap, bit, 1).
bitmap_set(bitmap, bit) == bitmap \cup {bit}
bitmap_clear_mut(bitmap, bit) == bitmap
bitmap_clear(bitmap, bit) == bitmap \ {bit}

\* bitmap_find_next_zero_area(bitmap, size, 0, 1, 0): the first zero bit, or
\* a value >= size when there is none.
bitmap_find_zero(bitmap, size) ==
    IF \E i \in 0..(size - 1) : i \notin bitmap
    THEN CHOOSE i \in 0..(size - 1) :
             i \notin bitmap /\ \A j \in 0..(i - 1) : j \in bitmap
    ELSE size

\* hash_min(val, bits) for 32-bit values: hash_32 with GOLDEN_RATIO_32.  The
\* product is reduced modulo 2^32 in two halves to stay within 32 bits.
hash_min(val, bits) ==
    LET lo == (val * 34375) % 65536          \* 0x8647 * val, low half
        carry == (val * 34375) \div 65536
        hi == (val * 25032 + carry) % 65536  \* 0x61C8 * val + carry
    IN  hi \div (2 ^ (16 - bits))

(***************************************************************************)
(* Upstream queue.                                                         *)
(***************************************************************************)
\* An upqueue entry holds the serialized message; the model keeps the
\* message record and its serialized length.
RawMsg(id, serlen) ==
    [type |-> "RAW", seq |-> id, serlen |-> serlen]

rl_msg_serlen(fields) == MsgSerLen

\* A control message with its fields and serialized length.
Msg(type, event_id, fields) ==
    [type |-> type, event_id |-> event_id, f |-> fields,
     serlen |-> rl_msg_serlen(fields)]

upqentry_size(entry) == entry.serlen + UPQENTRY_HDR

upq_no_space_mut(size, entry) == size + entry.serlen > RL_UPQUEUE_SIZE_MAX
upq_no_space(size, entry) == size + upqentry_size(entry) > RL_UPQUEUE_SIZE_MAX

upq_enqueue_mut(q, e) == list_add(q, e)
upq_enqueue(q, e) == list_add_tail(q, e)

\* rl_upqueue_append(rc, msg, maysleep).  A sleeping appender that finds no
\* space waits 5 ms and retries; within one atomic step no reader runs, so
\* it times out exactly when a non-sleeping appender fails.
rl_upqueue_append(S, rc, msg, maysleep) ==
    IF rc = NULL THEN SetRet(S, 0)
    ELSE IF upq_no_space(S.upqueue_size[rc], msg) THEN SetRet(S, ENOSPC)
    ELSE [S EXCEPT !.upqueue[rc] = upq_enqueue(@, msg),
                   !.upqueue_size[rc] = @ + upqentry_size(msg),
                   !.ret = 0]

read_short_mut(len, entry) == len <= entry.serlen
read_short(len, entry) == len < entry.serlen

\* rl_ctrl_read(f, buf, len): fault is the outcome of copy_to_user, blocking
\* is !(f_flags & O_NONBLOCK), signal is signal_pending(current).
rl_ctrl_read(rc, len, fault, blocking, signal) ==
    /\ rc_open[rc] /\ rc_fd[rc]
    /\ LET empty == upqueue[rc] = <<>>
           entry == Head(upqueue[rc])
           ret == IF len = 0 THEN 0
                  ELSE IF empty THEN (IF signal THEN ERESTARTSYS ELSE EAGAIN)
                  ELSE IF read_short(len, entry) THEN ENOBUFS
                  ELSE IF fault THEN EFAULT
                  ELSE entry.serlen
       IN  \* a blocking read of an empty queue sleeps until data or a signal
           /\ (len # 0 /\ empty /\ blocking) => signal
           /\ IF ret > 0
              THEN /\ upqueue' = [upqueue EXCEPT ![rc] = Tail(@)]
                   /\ upqueue_size' =
                          [upqueue_size EXCEPT ![rc] = @ - upqentry_size(entry)]
                   /\ read_log' = [read_log EXCEPT ![rc] =
                                      IF entry.type = "RAW" THEN Append(@, entry)
                                      ELSE @]
              ELSE UNCHANGED <<upqueue, upqueue_size, read_log>>
           /\ last' = [op |-> "rl_ctrl_read", rc |-> rc, len |-> len,
                       fault |-> fault, ret |-> ret]
    /\ UNCHANGED <<ctrl_vars, ipcp_vars, flow_vars, dm_refcnt, jiffies, app_log, msg_cnt, nops,
                 dealloc_call, flows_lock, drain_call, rio_flow, write_call>>

\* A producer appending one raw message of the given serialized length.
UpqAppend(rc, serlen, maysleep) ==
    /\ rc_open[rc]
    /\ msg_cnt < MaxMsgs
    /\ LET msg == RawMsg(msg_cnt + 1, serlen)
           S == rl_upqueue_append(St, rc, msg, maysleep)
       IN  /\ upqueue' = S.upqueue
           /\ upqueue_size' = S.upqueue_size
           /\ app_log' = [app_log EXCEPT ![rc] =
                             IF S.ret = 0 THEN Append(@, msg) ELSE @]
           /\ last' = [op |-> "rl_upqueue_append", rc |-> rc, msg |-> msg,
                       ret |-> S.ret]
    /\ msg_cnt' = msg_cnt + 1
    /\ UNCHANGED <<ctrl_vars, ipcp_vars, flow_vars, dm_refcnt, jiffies, read_log, nops,
                 dealloc_call, flows_lock, drain_call, rio_flow, write_call>>

\* Append msg to every open control device that subscribed to the IPCP
\* updates (the loop over dm->ctrl_devs), device n first.
RECURSIVE upqueue_append_subscribed(_, _, _)
upqueue_append_subscribed(S, n, msg) ==
    IF n > NumRc THEN S
    ELSE Bind(IF S.rc_open[n] /\ S.rc_flags[n] = RL_F_IPCPS
              THEN rl_upqueue_append(S, n, msg, FALSE) ELSE S,
              LAMBDA S1 : upqueue_append_subscribed(S1, n + 1, msg))

(***************************************************************************)
(* DIFs.                                                                   *)
(***************************************************************************)
dif_index(S, dif_name) ==
    IF \E i \in 1..Len(S.difs) : S.difs[i].name = dif_name
    THEN CHOOSE i \in 1..Len(S.difs) : S.difs[i].name = dif_name
    ELSE 0

\* dif_get(dm, dif_name, dif_type, &err): ret is err.
dif_get_mut(S, dif_name, dif_type) ==
    [S EXCEPT !.difs = list_add_tail(@, [name |-> dif_name, ty |-> dif_type,
                                         refcnt |-> 1]),
              !.ret = 0]
dif_get(S, dif_name, dif_type) ==
    LET i == dif_index(S, dif_name) IN
    IF i # 0
    THEN IF S.difs[i].ty = dif_type
         THEN [S EXCEPT !.difs[i].refcnt = @ + 1, !.ret = 0]
         ELSE SetRet(S, EINVAL)
    ELSE [S EXCEPT !.difs = list_add_tail(@, [name |-> dif_name,
                                               ty |-> dif_type, refcnt |-> 1]),
                   !.ret = 0]

dif_put_mut(S, dif_name) == S
dif_put(S, dif_name) ==
    LET i == dif_index(S, dif_name) IN
    IF S.difs[i].refcnt - 1 # 0
    THEN [S EXCEPT !.difs[i].refcnt = @ - 1]
    ELSE [S EXCEPT !.difs = list_del(@, i)]

(***************************************************************************)
(* IPCP factories and the IPCP table.                                      *)
(***************************************************************************)
\* The registered factories: "normal" (kernel/rina-normal.c) leaves flow
\* allocation and registration to the uipcp; "shim" stands for a factory
\* providing the kernel hooks.
Factories == {"normal", "shim"}

ipcp_factories_find(dif_type) == dif_type \in Factories

FactoryOps(dif_type) ==
    [appl_register |-> dif_type = "shim",
     flow_allocate_req |-> dif_type = "shim",
     flow_allocate_resp |-> dif_type = "shim",
     flow_deallocated |-> dif_type = "shim",
     use_cep_ids |-> dif_type = "shim",
     config |-> dif_type = "normal"]

NoOps ==
    [appl_register |-> FALSE, flow_allocate_req |-> FALSE,
     flow_allocate_resp |-> FALSE, flow_deallocated |-> FALSE,
     use_cep_ids |-> FALSE, config |-> FALSE]

\* hash_for_each(dm->ipcp_table, ...): the linked ids in bucket order.
RECURSIVE ScanOrder(_)
ScanOrder(ids) ==
    IF ids = {} THEN <<>>
    ELSE LET first == CHOOSE i \in ids : \A j \in ids :
                 \/ hash_min(i, IPCP_HASHTABLE_BITS) < hash_min(j, IPCP_HASHTABLE_BITS)
                 \/ /\ hash_min(i, IPCP_HASHTABLE_BITS) = hash_min(j, IPCP_HASHTABLE_BITS)
                    /\ i >= j
         IN  <<first>> \o ScanOrder(ids \ {first})

ipcp_scan(S) == ScanOrder(DOMAIN S.ipcp_table)

\* __ipcp_get(dm, ipcp_id): val is the entry's id, or NO_ID.
ipcp_get(S, ipcp_id) ==
    IF ipcp_id \in DOMAIN S.ipcp_table
    THEN [S EXCEPT !.ipcp_table[ipcp_id].refcnt = @ + 1, !.val = ipcp_id]
    ELSE [S EXCEPT !.val = NO_ID]

select_skip_zombie_mut(entry) == FALSE
select_skip_zombie(entry) == entry.zombie

\* The scan of ipcp_select_by_dif over the entries order[i..]: the id
\* selected, given the one selected so far.
RECURSIVE select_scan(_, _, _, _, _)
select_scan(S, order, i, dif_name, selected) ==
    IF i > Len(order) THEN selected
    ELSE LET entry == S.ipcp_table[order[i]] IN
         IF select_skip_zombie(entry)
         THEN select_scan(S, order, i + 1, dif_name, selected)
         ELSE IF dif_name = NoName
         THEN IF \/ selected = NO_ID
                 \/ /\ entry.dif_ty = "normal"
                    /\ \/ S.ipcp_table[selected].dif_ty # "normal"
                       \/ entry.txhdroom > S.ipcp_table[selected].txhdroom
              THEN select_scan(S, order, i + 1, dif_name, order[i])
              ELSE select_scan(S, order, i + 1, dif_name, selected)
         ELSE IF entry.dif = dif_name THEN order[i]
         ELSE select_scan(S, order, i + 1, dif_name, selected)

\* ipcp_select_by_dif(dm, dif_name): val is the selected id, or NO_ID.
ipcp_select_by_dif(S, dif_name) ==
    LET selected == select_scan(S, ipcp_scan(S), 1, dif_name, NO_ID) IN
    IF selected # NO_ID
    THEN [S EXCEPT !.ipcp_table[selected].refcnt = @ + 1, !.val = selected]
    ELSE [S EXCEPT !.val = NO_ID]

IpcpUpdate(update_type, ipcp_id, dif_name, dif_type) ==
    Msg("IPCP_UPDATE", 0, [update_type |-> update_type, ipcp_id |-> ipcp_id,
                           dif_name |-> dif_name, dif_type |-> dif_type])

\* rl_dm_getref(dm) and the increment of rl_dm_get(), on dm->refcnt.
rl_dm_getref(refcnt) == refcnt + 1

\* rl_dm_put(dm): the last reference destroys the rl_dm.
rl_dm_put_mut(S) == S
rl_dm_put(S) == [S EXCEPT !.dm_refcnt = @ - 1]

\* The test of __ipcp_put() after the decrement: no reference is left.
put_is_last_mut(refcnt) == refcnt < 0
put_is_last(refcnt) == refcnt = 0

\* __ipcp_put(entry), entry being linked with the given id.
ipcp_put(S, ipcp_id) ==
    IF ipcp_id = NO_ID THEN SetRet(S, 0)
    ELSE LET entry == S.ipcp_table[ipcp_id] IN
         IF ~put_is_last(entry.refcnt - 1)
         THEN [S EXCEPT !.ipcp_table[ipcp_id].refcnt = @ - 1, !.ret = 0]
         ELSE Bind([S EXCEPT !.ipcp_table = hash_del(@, ipcp_id),
                             !.ipcp_id_bitmap = bitmap_clear(@, ipcp_id)],
              LAMBDA S1 :
              Bind(dif_put(S1, entry.dif),
              LAMBDA S2 :
              Bind(upqueue_append_subscribed(
                       S2, 1, IpcpUpdate("DEL", ipcp_id, NoName, NoName)),
              LAMBDA S3 : SetRet(rl_dm_put(S3), 0))))

\* ipcp_add_entry(dm, req, &entry): val is the new entry's id.
ipcp_add_entry(S, name, dif_name, dif_type) ==
    IF \E i \in DOMAIN S.ipcp_table : S.ipcp_table[i].name = name
    THEN SetRet(S, EINVAL)
    ELSE Bind(dif_get(S, dif_name, dif_type),
         LAMBDA S1 :
         IF S1.ret # 0 THEN S1
         ELSE LET id == bitmap_find_zero(S1.ipcp_id_bitmap, NumIpcpIds) IN
              IF id < NumIpcpIds
              THEN [S1 EXCEPT
                       !.ipcp_id_bitmap = bitmap_set(@, id),
                       !.ipcp_table = hash_add(@, id,
                           [name |-> name, dif |-> dif_name,
                            dif_ty |-> dif_type, refcnt |-> 1,
                            zombie |-> FALSE, uipcp |-> NULL,
                            txhdroom |-> 0, flow_del_wait |-> FLOW_DEL_WAIT,
                            rxhdroom |-> 0, max_sdu_size |-> 2 ^ 16 - 1,
                            addr |-> RL_ADDR_NULL,
                            priv |-> FALSE, ops |-> NoOps,
                            registered_appls |-> <<>>]),
                       !.dm_refcnt = rl_dm_getref(@),
                       !.ret = 0, !.val = id]
              ELSE SetRet(dif_put(S1, dif_name), ENOSPC))

\* ipcp_add(dm, req, &ipcp_id): create_ok is the outcome of factory->create.
ipcp_add(S, name, dif_name, dif_type, create_ok) ==
    Bind(ipcp_add_entry(S, name, dif_name, dif_type),
    LAMBDA S1 :
    IF S1.ret # 0 THEN S1
    ELSE LET id == S1.val
             ret == IF ~ipcp_factories_find(dif_type) THEN ENXIO
                    ELSE IF ~create_ok THEN EINVAL
                    ELSE 0
         IN  IF ret # 0 THEN [ipcp_put(S1, id) EXCEPT !.ret = ret]
             ELSE [S1 EXCEPT !.ipcp_table[id].priv = TRUE,
                             !.ipcp_table[id].ops = FactoryOps(dif_type),
                             !.ret = 0, !.val = id])

\* ipcp_update_all(rc, ipcp_id, update_type)
ipcp_update_all(S, ipcp_id, update_type) ==
    Bind(ipcp_get(S, ipcp_id),
    LAMBDA S1 :
    IF S1.val = NO_ID THEN SetRet(S1, ENXIO)
    ELSE LET entry == S1.ipcp_table[ipcp_id] IN
         Bind(upqueue_append_subscribed(
                  S1, 1, IpcpUpdate(update_type, ipcp_id, entry.dif,
                                    entry.dif_ty)),
         LAMBDA S2 : SetRet(ipcp_put(S2, ipcp_id), 0)))

(***************************************************************************)
(* Registered applications.  A registered_appl is the record               *)
(* [name, rc, event_id, state, refcnt, ipcp]; while linked it sits in      *)
(* ipcp_table[ipcp].registered_appls.                                      *)
(***************************************************************************)
appl_index_mut(S, ipcp_id, appl_name) == 0
appl_index(S, ipcp_id, appl_name) ==
    LET l == S.ipcp_table[ipcp_id].registered_appls IN
    IF \E i \in 1..Len(l) : l[i].name = appl_name
    THEN CHOOSE i \in 1..Len(l) :
             l[i].name = appl_name /\ \A j \in 1..(i - 1) : l[j].name # appl_name
    ELSE 0

\* __ipcp_application_get(ipcp, appl_name): val is the index in the list,
\* or 0 for NULL.
ipcp_application_get(S, ipcp_id, appl_name) ==
    LET i == appl_index(S, ipcp_id, appl_name) IN
    IF i # 0
    THEN [S EXCEPT !.ipcp_table[ipcp_id].registered_appls[i].refcnt = @ + 1,
                   !.val = i]
    ELSE [S EXCEPT !.val = 0]

\* appl_del(app): the unregister hook has no effect on the modelled state.
appl_del(S, app) == ipcp_put(S, app.ipcp)

\* The tail of ipcp_application_put(app), after the application left its
\* list with no references.
application_release(S, app) ==
    IF S.ipcp_table[app.ipcp].ops.appl_register
    THEN [S EXCEPT !.appl_removeq = list_add_tail(@, app)]
    ELSE appl_del(S, app)

\* ipcp_application_put(app) for an application linked in its IPCP's list.
ipcp_application_put(S, ipcp_id, appl_name) ==
    LET i == appl_index(S, ipcp_id, appl_name) IN
    IF i = 0 THEN S
    ELSE LET app == S.ipcp_table[ipcp_id].registered_appls[i] IN
         IF app.refcnt - 1 # 0
         THEN [S EXCEPT !.ipcp_table[ipcp_id].registered_appls[i].refcnt = @ - 1]
         ELSE Bind([S EXCEPT !.ipcp_table[ipcp_id].registered_appls =
                                 list_del(@, i)],
                   LAMBDA S1 : application_release(S1, [app EXCEPT !.refcnt = 0]))

\* ipcp_application_put(app) for an application moved to a local list by
\* application_steal(): it holds the last reference.
stolen_application_put(S, app) ==
    IF app.refcnt - 1 # 0 THEN S
    ELSE application_release(S, [app EXCEPT !.refcnt = 0])

add_existing_ret_mut(old_rc, rc) == IF old_rc = rc THEN 0 ELSE EBUSY
add_existing_ret(old_rc, rc) == IF old_rc = rc THEN 1 ELSE EBUSY

appl_initial_state_mut(uipcp) == "APPL_REG_COMPLETE"
appl_initial_state(uipcp) ==
    IF uipcp THEN "APPL_REG_PENDING" ELSE "APPL_REG_COMPLETE"

\* ipcp_application_add(ipcp, appl_name, rc, event_id, uipcp): hook_ret is
\* the value returned by ops.appl_register, when the IPCP provides it.
ipcp_application_add(S, ipcp_id, appl_name, rc, event_id, uipcp, hook_ret) ==
    Bind(ipcp_application_get(S, ipcp_id, appl_name),
    LAMBDA S1 :
    IF S1.val # 0
    THEN LET old_rc == S1.ipcp_table[ipcp_id].registered_appls[S1.val].rc
         IN  SetRet(ipcp_application_put(S1, ipcp_id, appl_name),
                    add_existing_ret(old_rc, rc))
    ELSE LET newapp == [name |-> appl_name, rc |-> rc, event_id |-> event_id,
                        state |-> appl_initial_state(uipcp), refcnt |-> 1,
                        ipcp |-> ipcp_id]
         IN  Bind([S1 EXCEPT
                      !.ipcp_table[ipcp_id].registered_appls =
                          list_add_tail(@, newapp),
                      !.ipcp_table[ipcp_id].refcnt = @ + 1],
             LAMBDA S2 :
             IF S2.ipcp_table[ipcp_id].ops.appl_register
             THEN IF hook_ret # 0
                  THEN SetRet(ipcp_application_put(S2, ipcp_id, appl_name),
                              hook_ret)
                  ELSE SetRet(S2, 0)
             ELSE SetRet(S2, 0)))

\* ipcp_application_del(ipcp, appl_name)
ipcp_application_del(S, ipcp_id, appl_name) ==
    Bind(ipcp_application_get(S, ipcp_id, appl_name),
    LAMBDA S1 :
    IF S1.val = 0 THEN SetRet(S1, EINVAL)
    ELSE Bind(ipcp_application_put(S1, ipcp_id, appl_name),
         LAMBDA S2 : SetRet(ipcp_application_put(S2, ipcp_id, appl_name), 0)))

\* application_steal(appl, l) applied to every application of the list that
\* satisfies Sel: the applications moved to l, and what stays in the list.
StolenOf(apps, Sel(_)) ==
    SelectSeq(apps, LAMBDA a : Sel(a) /\ a.refcnt = 1)

LeftOf(apps, Sel(_)) ==
    LET kept == SelectSeq(apps, LAMBDA a : ~(Sel(a) /\ a.refcnt = 1))
    IN  [i \in 1..Len(kept) |->
            IF Sel(kept[i]) THEN [kept[i] EXCEPT !.refcnt = @ - 1] ELSE kept[i]]

RECURSIVE StolenByRc(_, _, _, _)
StolenByRc(S, order, i, rc) ==
    IF i > Len(order) THEN <<>>
    ELSE StolenOf(S.ipcp_table[order[i]].registered_appls,
                  LAMBDA a : a.rc = rc)
         \o StolenByRc(S, order, i + 1, rc)

notify_unregister_mut(S, app) == FALSE
notify_unregister(S, app) ==
    /\ app.state = "APPL_REG_COMPLETE"
    /\ ~S.ipcp_table[app.ipcp].ops.appl_register
    /\ S.ipcp_table[app.ipcp].uipcp # NULL

ApplRegister(event_id, dif_name, reg, appl_name) ==
    Msg("APPL_REGISTER", event_id,
        [dif_name |-> dif_name, reg |-> reg, appl_name |-> appl_name])

\* The second loop of application_del_by_rc(): notify the uipcp and drop
\* the stolen applications apps[i..].
RECURSIVE remove_stolen(_, _, _)
remove_stolen(S, apps, i) ==
    IF i > Len(apps) THEN S
    ELSE LET app == apps[i] IN
         Bind(IF notify_unregister(S, app)
              THEN rl_upqueue_append(
                       S, S.ipcp_table[app.ipcp].uipcp,
                       ApplRegister(0, S.ipcp_table[app.ipcp].dif, FALSE,
                                    app.name), TRUE)
              ELSE S,
         LAMBDA S1 :
         Bind(stolen_application_put(S1, app),
         LAMBDA S2 : remove_stolen(S2, apps, i + 1)))

\* application_del_by_rc(rc)
application_del_by_rc(S, rc) ==
    LET remove_apps == StolenByRc(S, ipcp_scan(S), 1, rc) IN
    Bind([S EXCEPT !.ipcp_table =
             [id \in DOMAIN S.ipcp_table |->
                 [S.ipcp_table[id] EXCEPT
                     !.registered_appls = LeftOf(@, LAMBDA a : a.rc = rc),
                     !.uipcp = IF @ = rc THEN NULL ELSE @]]],
         LAMBDA S1 : remove_stolen(S1, remove_apps, 1))
RECURSIVE put_stolen(_, _, _)
put_stolen(S, apps, i) ==
    IF i > Len(apps) THEN S
    ELSE Bind(stolen_application_put(S, apps[i]),
              LAMBDA S1 : put_stolen(S1, apps, i + 1))
del_sets_zombie_mut(entry) == entry
del_sets_zombie(entry) == [entry EXCEPT !.zombie = TRUE]

\* ipcp_del(rc, ipcp_id) from the statement that sets RL_K_IPCP_ZOMBIE, after
\* the test of the flag.  rl_iodevs_shutdown_by_ipcp() acts on the I/O
\* devices only.
ipcp_del_tested(S2, ipcp_id) ==
    LET apps == S2.ipcp_table[ipcp_id].registered_appls IN
    Bind([S2 EXCEPT
             !.ipcp_table[ipcp_id] =
                 [del_sets_zombie(@) EXCEPT
                     !.registered_appls = LeftOf(apps, LAMBDA a : TRUE)]],
    LAMBDA S3 :
    Bind(put_stolen(S3, StolenOf(apps, LAMBDA a : TRUE), 1),
    LAMBDA S4 : ipcp_put(S4, ipcp_id)))

\* ipcp_del(rc, ipcp_id)
ipcp_del(S, ipcp_id) ==
    IF ipcp_id >= NumIpcpIds THEN SetRet(S, ENXIO)
    ELSE Bind(ipcp_get(S, ipcp_id),
         LAMBDA S1 :
         IF S1.val = NO_ID THEN SetRet(S1, ENXIO)
         ELSE Bind(ipcp_put(S1, ipcp_id),
              LAMBDA S2 :
              IF S2.ipcp_table[ipcp_id].zombie THEN SetRet(S2, ENXIO)
              ELSE ipcp_del_tested(S2, ipcp_id)))

(***************************************************************************)
(* Control device: open, close, release, ioctl.                            *)
(***************************************************************************)
\* rl_ctrl_open(inode, f)
rl_ctrl_open(rc) ==
    /\ ~rc_open[rc]
    /\ rc_open' = [rc_open EXCEPT ![rc] = TRUE]
    /\ rc_fd' = [rc_fd EXCEPT ![rc] = TRUE]
    /\ rc_fcnt' = [rc_fcnt EXCEPT ![rc] = 1]
    /\ rc_flags' = [rc_flags EXCEPT ![rc] = 0]
    /\ flows_fetch_q' = [flows_fetch_q EXCEPT ![rc] = <<>>]
    /\ upqueue' = [upqueue EXCEPT ![rc] = <<>>]
    /\ upqueue_size' = [upqueue_size EXCEPT ![rc] = 0]
    /\ app_log' = [app_log EXCEPT ![rc] = <<>>]
    /\ read_log' = [read_log EXCEPT ![rc] = <<>>]
    /\ dm_refcnt' = rl_dm_getref(dm_refcnt)
    /\ last' = [op |-> "rl_ctrl_open", ret |-> 0]
    /\ UNCHANGED <<ipcp_vars, flow_vars, jiffies, msg_cnt, nops,
                 dealloc_call, flows_lock, drain_call, rio_flow, write_call>>

\* fput(rc->file): the release method runs later, once the count is zero.
fput(S, rc) ==
    IF rc = NULL THEN S ELSE [S EXCEPT !.rc_fcnt[rc] = @ - 1]

get_file_mut(S, rc) == S
get_file(S, rc) == [S EXCEPT !.rc_fcnt[rc] = @ + 1]

\* close(fd) by the process owning the control device.
ctrl_close(rc) ==
    /\ rc_open[rc] /\ rc_fd[rc]
    /\ \E S \in {[fput(St, rc) EXCEPT !.rc_fd[rc] = FALSE]} : Commit(S)
    /\ last' = [op |-> "close", ret |-> 0]
    /\ UNCHANGED <<jiffies, hist_vars, nops,
                 dealloc_call, flows_lock, drain_call, rio_flow, write_call>>

\* rl_ctrl_release(inode, f), called when the last reference to the file
\* is gone.
rl_ctrl_release(rc) ==
    /\ rc_open[rc] /\ rc_fcnt[rc] = 0
    /\ \E S1 \in {[St EXCEPT !.rc_open[rc] = FALSE]} :
       \E S2 \in {application_del_by_rc(S1, rc)} :
           Commit(rl_dm_put([S2 EXCEPT !.upqueue[rc] = <<>>,
                                       !.upqueue_size[rc] = 0,
                                       !.flows_fetch_q[rc] = <<>>,
                                       !.rc_flags[rc] = 0]))
    /\ last' = [op |-> "rl_ctrl_release", ret |-> 0, rc |-> rc,
                remove_apps |-> StolenByRc(St, ipcp_scan(St), 1, rc)]
    /\ UNCHANGED <<jiffies, hist_vars, nops,
                 dealloc_call, flows_lock, drain_call, rio_flow, write_call>>

\* initial_ipcp_update(rc): one ADD update per entry order[i..].
RECURSIVE initial_ipcp_update(_, _, _, _)
initial_ipcp_update(S, rc, order, i) ==
    IF i > Len(order) THEN S
    ELSE LET entry == S.ipcp_table[order[i]] IN
         Bind(rl_upqueue_append(S, rc, IpcpUpdate("ADD", order[i], entry.dif,
                                                  entry.dif_ty), FALSE),
              LAMBDA S1 : initial_ipcp_update(S1, rc, order, i + 1))

\* rl_ctrl_ioctl(f, RLITE_IOCTL_CHFLAGS, flags)
rl_ctrl_ioctl(rc, flags) ==
    /\ rc_open[rc] /\ rc_fd[rc]
    /\ \E S1 \in {IF rc_flags[rc] # RL_F_IPCPS /\ flags = RL_F_IPCPS
                  THEN initial_ipcp_update(St, rc, ipcp_scan(St), 1)
                  ELSE St} :
           Commit([S1 EXCEPT !.rc_flags[rc] = flags])
    /\ last' = [op |-> "rl_ctrl_ioctl", ret |-> 0, rc |-> rc,
                flags |-> flags, changed |-> rc_flags[rc] # flags]
    /\ UNCHANGED <<jiffies, hist_vars, nops,
                 dealloc_call, flows_lock, drain_call, rio_flow, write_call>>

(***************************************************************************)
(* Handlers of the IPCP and registration messages, as functions of the     *)
(* state: the result carries the handler's return value in ret.            *)
(***************************************************************************)
IpcpCreateResp(event_id, ipcp_id) ==
    Msg("IPCP_CREATE_RESP", event_id, [ipcp_id |-> ipcp_id])

\* rl_ipcp_create(rc, bmsg)
rl_ipcp_create(S0, rc, event_id, name, dif_name, dif_type, create_ok) ==
    Bind(ipcp_add(S0, name, dif_name, dif_type, create_ok),
    LAMBDA S1 :
    IF S1.ret # 0 THEN S1
    ELSE Bind(rl_upqueue_append(S1, rc, IpcpCreateResp(event_id, S1.val),
                                TRUE),
         LAMBDA S2 :
         IF S2.ret # 0 THEN SetRet(ipcp_del(S2, S1.val), S2.ret)
         ELSE SetRet(ipcp_update_all(S2, S1.val, "ADD"), 0)))

\* rl_ipcp_destroy(rc, bmsg)
rl_ipcp_destroy(S0, rc, ipcp_id) ==
    Bind(ipcp_del(S0, ipcp_id),
    LAMBDA S1 :
    IF S1.ret # 0 THEN S1
    ELSE SetRet(upqueue_append_subscribed(
                    S1, 1, IpcpUpdate("UIPCP_DEL", ipcp_id, NoName, NoName)),
                0))

\* rl_ipcp_uipcp_set(rc, bmsg)
rl_ipcp_uipcp_set(S0, rc, ipcp_id) ==
    Bind(ipcp_get(S0, ipcp_id),
    LAMBDA S1 :
    Bind(IF S1.val = NO_ID THEN SetRet(S1, EINVAL)
         ELSE IF S1.ipcp_table[ipcp_id].uipcp # NULL THEN SetRet(S1, EBUSY)
         ELSE [S1 EXCEPT !.ipcp_table[ipcp_id].uipcp = rc, !.ret = 0],
    LAMBDA S2 : [ipcp_put(S2, S1.val) EXCEPT !.ret = S2.ret]))
ApplRegisterResp(event_id, ipcp_id, reg, response, appl_name) ==
    Msg("APPL_REGISTER_RESP", event_id,
        [ipcp_id |-> ipcp_id, reg |-> reg, response |-> response,
         appl_name |-> appl_name])

register_response_mut(ret) == RLITE_SUCC
register_response(ret) == IF ret # 0 THEN RLITE_ERR ELSE RLITE_SUCC

reflect_registration_mut(ret, uipcp) == uipcp # NULL
reflect_registration(ret, uipcp) == ret = 0 /\ uipcp # NULL

\* rl_appl_register(rc, bmsg) from the return of ipcp_application_add() or
\* ipcp_application_del() on, with their result in ret.
appl_register_done(S2, rc, event_id, dif_name, reg, appl_name, ipcp, uipcp) ==
    Bind(IF reflect_registration(S2.ret, uipcp)
         THEN rl_upqueue_append(S2, uipcp,
                                ApplRegister(0, dif_name, reg, appl_name),
                                TRUE)
         ELSE S2,
    LAMBDA S3 :
    LET ret == IF S2.ret > 0 THEN 0 ELSE S2.ret IN
    Bind(IF S2.ret # 0 \/ uipcp = NULL \/ ~reg
         THEN SetRet(rl_upqueue_append(
                         S3, rc,
                         ApplRegisterResp(event_id, ipcp, reg,
                                          register_response(ret), appl_name),
                         FALSE), 0)
         ELSE SetRet(S3, ret),
    LAMBDA S4 : [ipcp_put(S4, ipcp) EXCEPT !.ret = S4.ret]))

\* The uipcp that rl_appl_register() reflects the request to: none when the
\* IPCP has the appl_register hook.
reflect_uipcp(S1, ipcp) ==
    IF S1.ipcp_table[ipcp].ops.appl_register THEN NULL
    ELSE S1.ipcp_table[ipcp].uipcp

\* rl_appl_register(rc, bmsg) from the return of ipcp_select_by_dif() on,
\* with the IPCP selected in val: hook_ret is the value the IPCP's
\* appl_register hook returns, when the IPCP provides one.
appl_register_selected(S1, rc, event_id, dif_name, reg, appl_name, hook_ret) ==
    LET ipcp == S1.val IN
    IF ipcp = NO_ID THEN SetRet(S1, ENXIO)
    ELSE
    LET uipcp == reflect_uipcp(S1, ipcp)
        no_uipcp == ~S1.ipcp_table[ipcp].ops.appl_register /\ uipcp = NULL
    IN
    IF no_uipcp THEN SetRet(ipcp_put(S1, ipcp), ENXIO)
    ELSE
    Bind(IF reg
         THEN ipcp_application_add(S1, ipcp, appl_name, rc, event_id,
                                   uipcp # NULL, hook_ret)
         ELSE ipcp_application_del(S1, ipcp, appl_name),
    LAMBDA S2 : appl_register_done(S2, rc, event_id, dif_name, reg, appl_name,
                                   ipcp, uipcp))

rl_appl_register(S0, rc, event_id, dif_name, reg, appl_name, hook_ret) ==
    Bind(ipcp_select_by_dif(S0, dif_name),
    LAMBDA S1 : appl_register_selected(S1, rc, event_id, dif_name, reg,
                                       appl_name, hook_ret))

resp_completes_mut(app) == app
resp_completes(app) == [app EXCEPT !.state = "APPL_REG_COMPLETE"]

\* rl_appl_register_resp(rc, bmsg): event_id is the one of the response
\* written by the uipcp, which the handler overwrites.
rl_appl_register_resp(S0, rc, event_id, ipcp_id, reg, response, appl_name) ==
    Bind(ipcp_get(S0, ipcp_id),
    LAMBDA S1 :
    IF \/ S1.val = NO_ID
       \/ /\ ~S1.ipcp_table[ipcp_id].ops.appl_register
          /\ S1.ipcp_table[ipcp_id].uipcp = NULL
       \/ ~reg
    THEN SetRet(ipcp_put(S1, S1.val), EINVAL)
    ELSE
    Bind(ipcp_application_get(S1, ipcp_id, appl_name),
    LAMBDA S2 :
    LET i == S2.val IN
    IF i = 0 THEN SetRet(ipcp_put(S2, ipcp_id), EINVAL)
    ELSE
    LET app == S2.ipcp_table[ipcp_id].registered_appls[i] IN
    Bind(IF response # 0
         THEN ipcp_application_put(S2, ipcp_id, appl_name)
         ELSE [S2 EXCEPT !.ipcp_table[ipcp_id].registered_appls[i] =
                             resp_completes(@)],
    LAMBDA S3 :
    Bind(rl_upqueue_append(
             S3, app.rc,
             ApplRegisterResp(app.event_id, ipcp_id, reg, response,
                              appl_name), TRUE),
    LAMBDA S4 :
    Bind(ipcp_application_put(S4, ipcp_id, appl_name),
    LAMBDA S5 : SetRet(ipcp_put(S5, ipcp_id), 0))))))

(***************************************************************************)
(* Flows.  A flow_entry is the record [local_port, remote_port,            *)
(* remote_addr, upper, event_id, refcnt, flags, ipcp, uid, expires]; it    *)
(* lives in flows under an object id from its allocation to its release    *)
(* in flow_del, and flow_table links port ids to object ids.               *)
(***************************************************************************)
\* flow_lookup(dm, port_id): the object id, or NO_ID for NULL.
flow_lookup(S, port_id) ==
    IF port_id \in DOMAIN S.flow_table THEN S.flow_table[port_id] ELSE NO_ID

\* flow_get(dm, port_id)
flow_get(S, port_id) ==
    LET flow == flow_lookup(S, port_id) IN
    IF flow # NO_ID
    THEN [S EXCEPT !.flows[flow].refcnt = @ + 1, !.val = flow]
    ELSE [S EXCEPT !.val = NO_ID]

\* The position of the first entry of the put-queue that expires after
\* expires, or one past the end.
putq_position(S, q, expires) ==
    IF \E i \in 1..Len(q) : S.flows[q[i]].expires > expires
    THEN CHOOSE i \in 1..Len(q) :
             /\ S.flows[q[i]].expires > expires
             /\ \A j \in 1..(i - 1) : ~(S.flows[q[j]].expires > expires)
    ELSE Len(q) + 1

list_insert(q, i, e) == SubSeq(q, 1, i - 1) \o <<e>> \o SubSeq(q, i, Len(q))

list_remove(q, e) == SelectSeq(q, LAMBDA x : x # e)

\* flows_putq_add(flow, jdelta)
flows_putq_add(S, flow, jdelta) ==
    Bind([S EXCEPT !.flows[flow].refcnt = @ + 1],
    LAMBDA S1 :
    IF S1.flows[flow].expires = NO_EXPIRY
    THEN LET expires == S1.jiffies + jdelta
             q == list_insert(S1.flows_putq,
                              putq_position(S1, S1.flows_putq, expires), flow)
         IN  Bind([S1 EXCEPT !.flows[flow].expires = expires,
                             !.flows_putq = q],
                  LAMBDA S2 :
                  [S2 EXCEPT !.flows_putq_tmr =
                                 S2.flows[Head(S2.flows_putq)].expires])
    ELSE S1)

\* __flow_put(entry, lock) once atomic_dec_and_test() has reported zero:
\* the removal is postponed, or the flow is detached from the tables and
\* handed to the removal worker.
flow_put_tail(S, flow) ==
    LET entry == S.flows[flow]
        ipcp == S.ipcp_table[entry.ipcp]
    IN  IF /\ "DEL_POSTPONED" \notin entry.flags
           /\ "ALLOCATED" \in entry.flags
           /\ "NEVER_BOUND" \notin entry.flags
        THEN Bind([S EXCEPT !.flows[flow].flags =
                                @ \cup {"DEALLOCATED", "DEL_POSTPONED"},
                            !.flows[flow].refcnt = @ + 1],
                  LAMBDA S1 : flows_putq_add(S1, flow, ipcp.flow_del_wait))
        ELSE [S EXCEPT !.flows[flow].flags = @ \cup {"DEALLOCATED"},
                       !.flow_table =
                           IF /\ entry.local_port \in DOMAIN @
                              /\ @[entry.local_port] = flow
                           THEN hash_del(@, entry.local_port) ELSE @,
                       !.port_id_bitmap = bitmap_clear(@, entry.local_port),
                       !.flow_table_by_cep =
                           IF ipcp.ops.use_cep_ids
                           THEN hash_del(@, entry.local_cep) ELSE @,
                       !.cep_id_bitmap =
                           IF ipcp.ops.use_cep_ids
                           THEN bitmap_clear(@, entry.local_cep) ELSE @,
                       !.flows_removeq = list_add_tail(@, flow)]

\* __flow_put(entry, lock) as one critical section of dm->flows_lock.
flow_put(S, flow) ==
    IF flow = NO_ID THEN S
    ELSE LET entry == S.flows[flow]
             ipcp == S.ipcp_table[entry.ipcp]
         IN  IF entry.refcnt - 1 # 0
             THEN [S EXCEPT !.flows[flow].refcnt = @ - 1]
             ELSE IF /\ "DEL_POSTPONED" \notin entry.flags
                     /\ "ALLOCATED" \in entry.flags
                     /\ "NEVER_BOUND" \notin entry.flags
             THEN Bind([S EXCEPT !.flows[flow].flags =
                                     @ \cup {"DEALLOCATED", "DEL_POSTPONED"},
                                 !.flows[flow].refcnt = 1],
                       LAMBDA S1 : flows_putq_add(S1, flow, ipcp.flow_del_wait))
             ELSE [S EXCEPT !.flows[flow].flags = @ \cup {"DEALLOCATED"},
                            !.flows[flow].refcnt = 0,
                            !.flow_table = hash_del(@, entry.local_port),
                            !.port_id_bitmap =
                                bitmap_clear(@, entry.local_port),
                            !.flow_table_by_cep =
                                IF ipcp.ops.use_cep_ids
                                THEN hash_del(@, entry.local_cep) ELSE @,
                            !.cep_id_bitmap =
                                IF ipcp.ops.use_cep_ids
                                THEN bitmap_clear(@, entry.local_cep) ELSE @,
                            !.flows_removeq = list_add_tail(@, flow)]

\* flows_putq_del(flow)
flows_putq_del(S, flow) ==
    Bind([S EXCEPT !.flows[flow].expires = NO_EXPIRY,
                   !.flows_putq = list_remove(@, flow)],
         LAMBDA S1 : flow_put(S1, flow))

\* flow_add(ipcp, upper, event_id, ..., pentry): val is the new flow's
\* object id, with one reference on behalf of the caller.
flow_add(S, ipcp_id, upper_rc, event_id) ==
    IF S.ipcp_table[ipcp_id].zombie THEN [S EXCEPT !.ret = ENXIO, !.val = NO_ID]
    ELSE LET use_cep == S.ipcp_table[ipcp_id].ops.use_cep_ids
             local_port == bitmap_find_zero(S.port_id_bitmap, NumPortIds)
             local_cep == IF use_cep
                          THEN bitmap_find_zero(S.cep_id_bitmap, NumCepIds)
                          ELSE 0
             flow == S.uid_cnt
             entry == [local_port |-> local_port,
                       local_cep |-> local_cep,
                       remote_port |-> RL_PORT_ID_NONE,
                       remote_addr |-> RL_ADDR_NULL,
                       upper |-> [rc |-> upper_rc, ipcp |-> NO_ID],
                       event_id |-> event_id, refcnt |-> 2,
                       flags |-> {"PENDING", "NEVER_BOUND"},
                       ipcp |-> ipcp_id, uid |-> S.uid_cnt,
                       expires |-> NO_EXPIRY]
         IN  IF local_port < NumPortIds /\ local_cep < NumCepIds
             THEN Bind([S EXCEPT
                           !.port_id_bitmap = bitmap_set(@, local_port),
                           !.cep_id_bitmap =
                               IF use_cep THEN bitmap_set(@, local_cep) ELSE @,
                           !.flows = hash_add(@, flow, entry),
                           !.flow_table = hash_add(@, local_port, flow),
                           !.flow_table_by_cep =
                               IF use_cep THEN hash_add(@, local_cep, flow)
                               ELSE @,
                           !.uid_cnt = @ + 1],
                  LAMBDA S1 :
                  Bind(IF upper_rc # NULL THEN get_file(S1, upper_rc) ELSE S1,
                  LAMBDA S2 :
                  Bind(flows_putq_add(S2, flow, RL_UNBOUND_FLOW_TO),
                  LAMBDA S3 :
                  [S3 EXCEPT !.ipcp_table[ipcp_id].refcnt = @ + 1,
                             !.ret = 0, !.val = flow])))
             ELSE [S EXCEPT !.ret = ENOSPC, !.val = NO_ID]
FlowDeallocated(ipcp_id, entry) ==
    Msg("FLOW_DEALLOCATED", 0,
        [ipcp_id |-> ipcp_id, local_port_id |-> entry.local_port,
         remote_port_id |-> entry.remote_port,
         remote_addr |-> entry.remote_addr])

\* flow_del(entry)
flow_del(S, flow) ==
    LET entry == S.flows[flow]
        ipcp == S.ipcp_table[entry.ipcp]
    IN  Bind([fput(S, entry.upper.rc) EXCEPT !.flows = hash_del(@, flow)],
        LAMBDA S1 :
        Bind(IF /\ ~ipcp.ops.flow_deallocated
                /\ ipcp.uipcp # NULL
                /\ entry.local_port # RL_PORT_ID_NONE
                /\ entry.remote_port # RL_PORT_ID_NONE
                /\ entry.remote_addr # RL_ADDR_NULL
             THEN rl_upqueue_append(S1, ipcp.uipcp,
                                    FlowDeallocated(entry.ipcp, entry), TRUE)
             ELSE S1,
        LAMBDA S2 :
        Bind(IF entry.upper.ipcp # NO_ID THEN ipcp_put(S2, entry.upper.ipcp)
             ELSE S2,
        LAMBDA S3 : ipcp_put(S3, entry.ipcp))))
RECURSIVE flow_del_all(_, _, _)
flow_del_all(S, removeq, i) ==
    IF i > Len(removeq) THEN S
    ELSE Bind(flow_del(S, removeq[i]),
              LAMBDA S1 : flow_del_all(S1, removeq, i + 1))

\* flows_removew_func(w)
flows_removew_func ==
    /\ flows_removeq # <<>>
    /\ \E S \in {flow_del_all([St EXCEPT !.flows_removeq = <<>>],
                              flows_removeq, 1)} : Commit(S)
    /\ last' = [op |-> "flows_removew_func", ret |-> 0]
    /\ UNCHANGED <<jiffies, hist_vars, nops,
                 dealloc_call, flows_lock, drain_call, rio_flow, write_call>>

\* A loop that releases nothing.
putq_drain_expired_mut(S) == S

\* The loop of flows_putq_drain(): release the expired flows at the head
\* of the put-queue.
RECURSIVE putq_drain_expired(_)
putq_drain_expired(S) ==
    IF S.flows_putq = <<>> THEN S
    ELSE LET flow == Head(S.flows_putq) IN
         IF ~(S.jiffies < S.flows[flow].expires)
         THEN Bind([S EXCEPT !.flows_putq = Tail(@),
                             !.flows[flow].expires = NO_EXPIRY],
              LAMBDA S1 :
              Bind(flow_put(S1, flow),
              LAMBDA S2 :
              Bind(flow_put(S2, flow),
              LAMBDA S3 : putq_drain_expired(S3))))
         ELSE S

\* flows_putq_drain(tmr): the timer callback, run once the timer expired.
flows_putq_drain ==
    /\ flows_putq_tmr # NO_EXPIRY
    /\ ~(jiffies < flows_putq_tmr)
    /\ \E S1 \in {putq_drain_expired([St EXCEPT !.flows_putq_tmr = NO_EXPIRY])} :
           Commit(IF S1.flows_putq # <<>>
                  THEN [S1 EXCEPT !.flows_putq_tmr =
                                      S1.flows[Head(S1.flows_putq)].expires]
                  ELSE S1)
    /\ last' = [op |-> "flows_putq_drain", ret |-> 0]
    /\ UNCHANGED <<jiffies, hist_vars, nops,
                 dealloc_call, flows_lock, drain_call, rio_flow, write_call>>

\* The clock advances by one tick.
Tick ==
    /\ jiffies < MaxJiffies
    /\ jiffies' = jiffies + 1
    /\ last' = [op |-> "tick", ret |-> 0]
    /\ UNCHANGED <<ctrl_vars, upq_vars, ipcp_vars, flow_vars, hist_vars, nops,
                 dm_refcnt, dealloc_call, flows_lock, drain_call, rio_flow,
                 write_call>>

\* flow_make_mortal(flow)
flow_make_mortal(S, flow) ==
    IF flow = NO_ID THEN S
    ELSE IF "NEVER_BOUND" \in S.flows[flow].flags
    THEN Bind([S EXCEPT !.flows[flow].flags = @ \ {"NEVER_BOUND"},
                        !.flows[flow].refcnt = @ - 1],
              LAMBDA S1 : flows_putq_del(S1, flow))
    ELSE S

(***************************************************************************)
(* Handlers of the flow allocation messages.                               *)
(***************************************************************************)
\* upper_ipcp_flow_bind(rc, upper_ipcp_id, flow): the reference taken by
\* the lookup is kept by the flow.
upper_ipcp_flow_bind(S, upper_ipcp_id, flow) ==
    Bind(ipcp_get(S, upper_ipcp_id),
    LAMBDA S1 :
    IF S1.val = NO_ID THEN SetRet(S1, ENXIO)
    ELSE [S1 EXCEPT !.flows[flow].upper.ipcp = upper_ipcp_id, !.ret = 0])
FaRespArrived(event_id, port_id, response) ==
    Msg("FA_RESP_ARRIVED", event_id,
        [port_id |-> port_id, response |-> response])

\* rl_append_allocate_flow_resp_arrived(rc, event_id, port_id, response,
\* maysleep)
rl_append_allocate_flow_resp_arrived(S, rc, event_id, port_id, response, maysleep) ==
    rl_upqueue_append(S, rc, FaRespArrived(event_id, port_id, response),
                      maysleep)

FaReq(dif_name, local_port, uid) ==
    Msg("FA_REQ", 0,
        [dif_name |-> dif_name, local_port |-> local_port, uid |-> uid])

\* The test of rl_fa_req() before it returns: the request went through and
\* no negative response is to be synthesized.
fa_req_done_mut(ret) == TRUE
fa_req_done(ret) == ret = 0

\* rl_fa_req(rc, bmsg) from the return of ipcp_select_by_dif() on, with the
\* IPCP selected in val: hook_ret is the value the IPCP's flow_allocate_req
\* hook returns, when the IPCP provides one; upper_ipcp_id is NO_ID for
\* 0xffff.
fa_req_selected(S1, rc, event_id, dif_name, upper_ipcp_id, hook_ret) ==
    LET ipcp == S1.val IN
    Bind(IF ipcp = NO_ID THEN [S1 EXCEPT !.ret = ENXIO, !.val = NO_ID]
         ELSE flow_add(S1, ipcp, rc, event_id),
    LAMBDA S2 :
    LET flow == S2.val IN
    Bind(IF S2.ret # 0 THEN S2
         ELSE Bind([S2 EXCEPT !.flows[flow].flags = @ \cup {"INITIATOR"}],
              LAMBDA S3 :
              Bind(IF upper_ipcp_id # NO_ID
                   THEN upper_ipcp_flow_bind(S3, upper_ipcp_id, flow)
                   ELSE SetRet(S3, 0),
              LAMBDA S4 :
              IF S4.ret # 0 THEN S4
              ELSE IF S4.ipcp_table[ipcp].ops.flow_allocate_req
              THEN SetRet(S4, hook_ret)
              ELSE IF S4.ipcp_table[ipcp].uipcp = NULL THEN SetRet(S4, ENXIO)
              ELSE rl_upqueue_append(
                       S4, S4.ipcp_table[ipcp].uipcp,
                       FaReq(dif_name, S4.flows[flow].local_port,
                             S4.flows[flow].uid), TRUE))),
    \* out:
    LAMBDA S5 :
    Bind(flow_put(S5, flow),
    LAMBDA S6 :
    Bind(ipcp_put(S6, ipcp),
    LAMBDA S7 :
    IF fa_req_done(S5.ret) THEN SetRet(S7, 0)
    ELSE rl_append_allocate_flow_resp_arrived(S7, rc, event_id, 0, 1,
                                              TRUE)))))

rl_fa_req(S0, rc, event_id, dif_name, upper_ipcp_id, hook_ret) ==
    Bind(ipcp_select_by_dif(S0, dif_name),
    LAMBDA S1 : fa_req_selected(S1, rc, event_id, dif_name, upper_ipcp_id,
                                hook_ret))

resp_allocates_mut(response) == TRUE
resp_allocates_none(response) == FALSE
resp_allocates(response) == response = 0

resp_deletes_mut(response, ret) == ret # 0
resp_deletes(response, ret) == response # 0 \/ ret # 0

\* The state transition shared by rl_fa_resp() and rl_fa_resp_arrived():
\* the flow leaves PENDING and, when accepted, becomes ALLOCATED and drops
\* its control device.
flow_leave_pending(S, flow, response) ==
    [S EXCEPT !.flows[flow].flags =
                  IF resp_allocates(response)
                  THEN (@ \ {"PENDING"}) \cup {"ALLOCATED"}
                  ELSE @ \ {"PENDING"},
              !.flows[flow].upper.rc =
                  IF resp_allocates(response) THEN NULL ELSE @]

FaResp(port_id, response) ==
    Msg("FA_RESP", 0, [port_id |-> port_id, response |-> response])

\* The outcome of a failed BUG_ON(): the calling thread is killed where it
\* stands.
OOPS == -1000

\* rl_fa_resp(rc, bmsg): hook_ret is the value the IPCP's
\* flow_allocate_resp hook returns, when the IPCP provides one.
rl_fa_resp(S0, rc, kevent_id, port_id, response, upper_ipcp_id, hook_ret) ==
    Bind(flow_get(S0, port_id),
    LAMBDA S1 :
    LET flow == S1.val IN
    IF flow = NO_ID THEN SetRet(S1, EINVAL)
    ELSE
    LET entry == S1.flows[flow] IN
    IF kevent_id = entry.event_id /\ rc # entry.upper.rc
    THEN SetRet(S1, OOPS)
    ELSE
    Bind(IF kevent_id # entry.event_id THEN SetRet(S1, EINVAL)
         ELSE IF "PENDING" \notin entry.flags THEN SetRet(S1, EINVAL)
         ELSE Bind(fput(flow_leave_pending(S1, flow, response),
                        IF response = 0 THEN rc ELSE NULL),
              LAMBDA S2 :
              Bind(IF response = 0 /\ upper_ipcp_id # NO_ID
                   THEN upper_ipcp_flow_bind(S2, upper_ipcp_id, flow)
                   ELSE SetRet(S2, 0),
              LAMBDA S3 :
              LET ipcp == S3.ipcp_table[entry.ipcp] IN
              IF S3.ret # 0 THEN S3
              ELSE IF ipcp.ops.flow_allocate_resp THEN SetRet(S3, hook_ret)
              ELSE IF ipcp.uipcp = NULL THEN SetRet(S3, ENXIO)
              ELSE rl_upqueue_append(S3, ipcp.uipcp,
                                     FaResp(port_id, response), TRUE))),
    \* out:
    LAMBDA S5 :
    Bind(IF resp_deletes(response, S5.ret)
         THEN Bind(flows_putq_del(S5, flow), LAMBDA T : flow_put(T, flow))
         ELSE S5,
    LAMBDA S6 : SetRet(flow_put(S6, flow), S5.ret))))
FaReqArrived(kevent_id, ipcp_id, port_id, local_appl, dif_name) ==
    Msg("FA_REQ_ARRIVED", 0,
        [kevent_id |-> kevent_id, ipcp_id |-> ipcp_id, port_id |-> port_id,
         local_appl |-> local_appl, dif_name |-> dif_name])

\* rl_fa_req_arrived(ipcp, kevent_id, remote_port, ..., maysleep)
rl_fa_req_arrived(S0, ipcp_id, kevent_id, remote_port, remote_addr, local_appl, maysleep) ==
    Bind(ipcp_application_get(S0, ipcp_id, local_appl),
    LAMBDA S1 :
    IF S1.val = 0 THEN SetRet(S1, EINVAL)
    ELSE
    LET app == S1.ipcp_table[ipcp_id].registered_appls[S1.val] IN
    Bind(flow_add(S1, ipcp_id, app.rc, kevent_id),
    LAMBDA S2 :
    LET flow == S2.val IN
    Bind(IF S2.ret # 0 THEN S2
         ELSE Bind([S2 EXCEPT !.flows[flow].remote_port = remote_port,
                              !.flows[flow].remote_addr = remote_addr,
                              !.flows[flow].uid = kevent_id],
              LAMBDA S3 :
              Bind(flow_put(S3, flow),
              LAMBDA S4 :
              Bind(rl_upqueue_append(
                       S4, app.rc,
                       FaReqArrived(kevent_id, ipcp_id,
                                    S3.flows[flow].local_port, local_appl,
                                    S4.ipcp_table[ipcp_id].dif),
                       maysleep),
              LAMBDA S5 :
              IF S5.ret # 0
              THEN Bind(flows_putq_del(S5, flow),
                        LAMBDA T : SetRet(flow_put(T, flow), S5.ret))
              ELSE S5))),
    \* out:
    LAMBDA S7 :
    SetRet(ipcp_application_put(S7, ipcp_id, local_appl), S7.ret))))

\* rl_fa_resp_arrived() from the return of flow_get(), which found flow.
fa_resp_arrived_got(S1, flow, local_port, remote_port, remote_addr, response, maysleep) ==
    LET entry == S1.flows[flow]
        rc == entry.upper.rc
    IN
    Bind(IF "PENDING" \notin entry.flags THEN SetRet(S1, EINVAL)
         ELSE Bind([flow_leave_pending(S1, flow, response) EXCEPT
                       !.flows[flow].remote_port = remote_port,
                       !.flows[flow].remote_addr = remote_addr],
              LAMBDA S2 :
              Bind(rl_append_allocate_flow_resp_arrived(
                       S2, rc, entry.event_id, local_port, response,
                       maysleep),
              LAMBDA S3 :
              Bind(SetRet(fput(S3, IF response = 0 THEN rc ELSE NULL), S3.ret),
              LAMBDA S4 :
              IF resp_deletes(response, S4.ret)
              THEN Bind(flows_putq_del(S4, flow),
                        LAMBDA T : SetRet(flow_put(T, flow), S4.ret))
              ELSE S4))),
    \* out:
    LAMBDA S6 : SetRet(flow_put(S6, flow), S6.ret))

\* rl_fa_resp_arrived(ipcp, local_port, remote_port, ..., response, flowcfg,
\* maysleep)
rl_fa_resp_arrived(S0, ipcp_id, local_port, remote_port, remote_addr, response, maysleep) ==
    Bind(flow_get(S0, local_port),
    LAMBDA S1 :
    IF S1.val = NO_ID THEN SetRet(S1, EINVAL)
    ELSE fa_resp_arrived_got(S1, S1.val, local_port, remote_port,
                             remote_addr, response, maysleep))

\* rl_uipcp_fa_req_arrived(rc, bmsg)
rl_uipcp_fa_req_arrived(S0, rc, ipcp_id, kevent_id, remote_port, remote_addr, local_appl) ==
    Bind(ipcp_get(S0, ipcp_id),
    LAMBDA S1 :
    Bind(IF S1.val # NO_ID
         THEN rl_fa_req_arrived(S1, ipcp_id, kevent_id, remote_port,
                                remote_addr, local_appl, TRUE)
         ELSE SetRet(S1, EINVAL),
    LAMBDA S2 : SetRet(ipcp_put(S2, S1.val), S2.ret)))

\* rl_uipcp_fa_resp_arrived(rc, bmsg)
rl_uipcp_fa_resp_arrived(S0, rc, ipcp_id, local_port, remote_port, remote_addr, response) ==
    Bind(ipcp_get(S0, ipcp_id),
    LAMBDA S1 :
    Bind(IF S1.val # NO_ID
         THEN rl_fa_resp_arrived(S1, ipcp_id, local_port, remote_port,
                                 remote_addr, response, TRUE)
         ELSE SetRet(S1, EINVAL),
    LAMBDA S2 : SetRet(ipcp_put(S2, S1.val), S2.ret)))

\* The parameter values written with IPCP_CONFIG, and the number each one
\* spells in decimal, if any.
ConfigValues == {"2", "70000", "x"}
IsDecimal(value) == value \in {"2", "70000"}
DecimalOf(value) == IF value = "2" THEN 2 ELSE 70000

\* kstrtou16/32/64(src, 10, &v): ret is the result and val, on success, the
\* number.  The numbers written all fit 32 bits.
kstrtou(S, value, bits) ==
    IF ~IsDecimal(value) THEN SetRet(S, EINVAL)
    ELSE IF bits < 32 /\ DecimalOf(value) >= 2 ^ bits THEN SetRet(S, ERANGE)
    ELSE [S EXCEPT !.ret = 0, !.val = DecimalOf(value)]

\* rina_normal_config(ipcp, param_name, param_value)
rina_normal_config(S, ipcp_id, name, value) ==
    IF name = "address"
    THEN Bind(kstrtou(S, value, 64),
         LAMBDA S1 :
         IF S1.ret = 0 THEN [S1 EXCEPT !.ipcp_table[ipcp_id].addr = S1.val]
         ELSE S1)
    ELSE SetRet(S, EINVAL)

\* The parameters rl_ipcp_config() manages when the IPCP's hook reports
\* -ENOSYS; val tells whether the subscribers are to be notified.
core_config_mut(S, ipcp_id, name, value) == [S EXCEPT !.ret = 0, !.val = 0]
core_config(S, ipcp_id, name, value) ==
    LET Set(attr, bits, notifies) ==
            Bind(kstrtou(S, value, bits),
            LAMBDA S1 :
            IF S1.ret # 0 THEN [S1 EXCEPT !.val = 0]
            ELSE [S1 EXCEPT
                     !.ipcp_table[ipcp_id][attr] = S1.val,
                     !.val = IF /\ notifies
                                /\ S.ipcp_table[ipcp_id][attr] # S1.val
                             THEN 1 ELSE 0])
    IN  IF name = "txhdroom" THEN Set("txhdroom", 16, FALSE)
        ELSE IF name = "rxhdroom" THEN Set("rxhdroom", 16, FALSE)
        ELSE IF name = "mss" THEN Set("max_sdu_size", 32, TRUE)
        ELSE IF name = "flow-del-wait-ms" THEN Set("flow_del_wait", 32, FALSE)
        ELSE [S EXCEPT !.ret = EINVAL, !.val = 0]

\* rl_ipcp_config(rc, bmsg)
rl_ipcp_config(S0, rc, ipcp_id, name, value) ==
    IF name = NoName \/ value = NoName THEN SetRet(S0, EINVAL)
    ELSE
    Bind(ipcp_get(S0, ipcp_id),
    LAMBDA S1 :
    IF S1.val = NO_ID THEN SetRet(S1, EINVAL)
    ELSE
    Bind(IF S1.ipcp_table[ipcp_id].ops.config
         THEN [rina_normal_config(S1, ipcp_id, name, value) EXCEPT !.val = 0]
         ELSE [S1 EXCEPT !.ret = ENOSYS, !.val = 0],
    LAMBDA S2 :
    Bind(IF S2.ret = ENOSYS THEN core_config(S2, ipcp_id, name, value) ELSE S2,
    LAMBDA S3 :
    Bind(IF S3.ret = 0 /\ S3.val # 0
         THEN ipcp_update_all(S3, ipcp_id, "UPD") ELSE S3,
    LAMBDA S4 : SetRet(ipcp_put(S4, ipcp_id), S3.ret)))))

\* hash_for_each(dm->flow_table, ...): the linked port ids in bucket order.
PORT_ID_HASHTABLE_BITS == 10
RECURSIVE FlowScanOrder(_)
FlowScanOrder(ports) ==
    IF ports = {} THEN <<>>
    ELSE LET first == CHOOSE p \in ports : \A q \in ports :
                 \/ hash_min(p, PORT_ID_HASHTABLE_BITS) < hash_min(q, PORT_ID_HASHTABLE_BITS)
                 \/ /\ hash_min(p, PORT_ID_HASHTABLE_BITS) = hash_min(q, PORT_ID_HASHTABLE_BITS)
                    /\ p >= q
         IN  <<first>> \o FlowScanOrder(ports \ {first})

\* The response built for one flow of the table, and the terminator.
FlowFetchEntry(entry) ==
    [end |-> 0, ipcp_id |-> entry.ipcp, local_port |-> entry.local_port,
     remote_port |-> entry.remote_port, remote_addr |-> entry.remote_addr]
FlowFetchEnd ==
    [end |-> 1, ipcp_id |-> 0, local_port |-> 0, remote_port |-> 0,
     remote_addr |-> 0]

fetch_filtered_out(ipcp_id, entry) == ipcp_id # NO_ID /\ entry.ipcp # ipcp_id

\* The flows-fetch queue rl_flow_fetch builds when it finds it empty: one
\* response per flow of the table that passes the filter, then the
\* terminator.
flows_fetch_snapshot(S, ipcp_id) ==
    LET order == FlowScanOrder(DOMAIN S.flow_table)
        kept == SelectSeq(order, LAMBDA p :
                    ~fetch_filtered_out(ipcp_id, S.flows[S.flow_table[p]]))
    IN  [i \in 1..Len(kept) |-> FlowFetchEntry(S.flows[S.flow_table[kept[i]]])]
        \o <<FlowFetchEnd>>

fetch_refill(q) == q = <<>>

\* rl_flow_fetch(rc, req); ipcp_id is NO_ID for 0xffff (no filter).
rl_flow_fetch(S0, rc, event_id, ipcp_id) ==
    Bind(IF ipcp_id # NO_ID THEN ipcp_get(S0, ipcp_id) ELSE S0,
    LAMBDA S1 :
    IF ipcp_id # NO_ID /\ S1.val = NO_ID THEN SetRet(S1, EINVAL)
    ELSE
    Bind(IF ipcp_id # NO_ID THEN ipcp_put(S1, ipcp_id) ELSE S1,
    LAMBDA S2 :
    Bind(IF fetch_refill(S2.flows_fetch_q[rc])
         THEN [S2 EXCEPT !.flows_fetch_q[rc] =
                             flows_fetch_snapshot(S2, ipcp_id)]
         ELSE S2,
    LAMBDA S3 :
    LET fqe == Head(S3.flows_fetch_q[rc]) IN
    rl_upqueue_append([S3 EXCEPT !.flows_fetch_q[rc] = Tail(@)], rc,
                      Msg("FLOW_FETCH_RESP", event_id, fqe), FALSE))))

(***************************************************************************)
(* write() on a control device.                                            *)
(***************************************************************************)
\* The message types rl_ctrl_write() reserves to CAP_SYS_ADMIN.
Privileged_mut == {"IPCP_CREATE"}
Privileged ==
    {"IPCP_CREATE", "IPCP_DESTROY", "IPCP_CONFIG", "IPCP_PDUFT_SET",
     "IPCP_PDUFT_FLUSH", "APPL_REGISTER_RESP", "IPCP_UIPCP_SET",
     "UIPCP_FA_REQ_ARRIVED", "UIPCP_FA_RESP_ARRIVED", "FLOW_DEALLOC"}

\* capable(CAP_SYS_ADMIN) for the process writing to rc: device 1 belongs
\* to a privileged process, the others to ordinary ones.
capable(rc) == rc = 1

\* rl_ctrl_write(f, ubuf, len, ppos) for a well-formed message of the given
\* type and fields, R being the state the handler of that type produces.
rl_ctrl_write(rc, msg_type, args, R) ==
    /\ CanWrite(rc)
    /\ \E S \in {IF msg_type \in Privileged /\ ~capable(rc)
                 THEN SetRet(St, EPERM) ELSE R} :
           /\ Commit(S)
           /\ last' = [op |-> msg_type, ret |-> S.ret, rc |-> rc,
                       args |-> args]
    /\ Written

\* appl_removew_func(w): appl_del for every application of dm->appl_removeq.
RECURSIVE appl_del_all(_, _, _)
appl_del_all(S, apps, i) ==
    IF i > Len(apps) THEN S
    ELSE Bind(appl_del(S, apps[i]),
              LAMBDA S1 : appl_del_all(S1, apps, i + 1))
appl_removew_func ==
    /\ appl_removeq # <<>>
    /\ \E S \in {appl_del_all([St EXCEPT !.appl_removeq = <<>>],
                              appl_removeq, 1)} : Commit(S)
    /\ last' = [op |-> "appl_removew_func", ret |-> 0]
    /\ UNCHANGED <<jiffies, hist_vars, nops,
                 dealloc_call, flows_lock, drain_call, rio_flow, write_call>>

(***************************************************************************)
(* Specifications.                                                         *)
(***************************************************************************)
\* The state record of a freshly loaded module.
St0 ==
    [rc_open |-> [rc \in Rcs |-> FALSE], rc_fd |-> [rc \in Rcs |-> FALSE],
     rc_fcnt |-> [rc \in Rcs |-> 0], rc_flags |-> [rc \in Rcs |-> 0],
     flows_fetch_q |-> [rc \in Rcs |-> <<>>],
     upqueue |-> [rc \in Rcs |-> <<>>],
     upqueue_size |-> [rc \in Rcs |-> 0], ipcp_table |-> EmptyTable,
     ipcp_id_bitmap |-> {}, difs |-> <<>>, appl_removeq |-> <<>>,
     flows |-> EmptyTable, flow_table |-> EmptyTable, port_id_bitmap |-> {},
     flow_table_by_cep |-> EmptyTable, cep_id_bitmap |-> {},
     flows_putq |-> <<>>, flows_putq_tmr |-> NO_EXPIRY,
     flows_removeq |-> <<>>, uid_cnt |-> 0, dm_refcnt |-> 0,
     jiffies |-> 0, ret |-> 0,
     val |-> NO_ID]

\* No control device is open.
Init ==
    /\ rc_open = [rc \in Rcs |-> FALSE]
    /\ rc_fd = [rc \in Rcs |-> FALSE]
    /\ rc_fcnt = [rc \in Rcs |-> 0]
    /\ rc_flags = [rc \in Rcs |-> 0]
    /\ flows_fetch_q = [rc \in Rcs |-> <<>>]
    /\ upqueue = [rc \in Rcs |-> <<>>]
    /\ upqueue_size = [rc \in Rcs |-> 0]
    /\ ipcp_table = EmptyTable
    /\ ipcp_id_bitmap = {}
    /\ difs = <<>>
    /\ appl_removeq = <<>>
    /\ flows = EmptyTable
    /\ flow_table = EmptyTable
    /\ port_id_bitmap = {}
    /\ flow_table_by_cep = EmptyTable
    /\ cep_id_bitmap = {}
    /\ flows_putq = <<>>
    /\ flows_putq_tmr = NO_EXPIRY
    /\ flows_removeq = <<>>
    /\ uid_cnt = 0
    /\ dm_refcnt = 0
    /\ jiffies = 0
    /\ last = [op |-> "init", ret |-> 0]
    /\ app_log = [rc \in Rcs |-> <<>>]
    /\ read_log = [rc \in Rcs |-> <<>>]
    /\ msg_cnt = 0
    /\ nops = 0
    /\ dealloc_call = [t \in Threads |-> NoCall]
    /\ flows_lock = "free"
    /\ drain_call = NoCall
    /\ rio_flow = NO_ID
    /\ write_call = [t \in Threads |-> NoCall]

\* The upstream queue alone: producers append raw messages of several
\* lengths, readers read with several buffer lengths.
UpqOpen == \E rc \in UpqRcs : rl_ctrl_open(rc)

RawAppend ==
    \E rc \in UpqRcs, serlen \in SerLens, maysleep \in BOOLEAN :
        UpqAppend(rc, serlen, maysleep)

UpqRead ==
    \E rc \in UpqRcs, len \in BufLens, fault, blocking, signal \in BOOLEAN :
        rl_ctrl_read(rc, len, fault, blocking, signal)

NextUpq == UpqOpen \/ RawAppend \/ UpqRead

SpecUpq == Init /\ [][NextUpq]_vars

\* IPCPs and application registration.  Device 1 belongs to the uipcp
\* daemon, which has created IPCP "x" of DIF "d1" and attached to it; both
\* devices are open and their queues have been read.
InitReg ==
    /\ rc_open = [rc \in Rcs |-> TRUE]
    /\ rc_fd = [rc \in Rcs |-> TRUE]
    /\ rc_fcnt = [rc \in Rcs |-> 1]
    /\ rc_flags = [rc \in Rcs |-> 0]
    /\ flows_fetch_q = [rc \in Rcs |-> <<>>]
    /\ upqueue = [rc \in Rcs |-> <<>>]
    /\ upqueue_size = [rc \in Rcs |-> 0]
    /\ ipcp_table = (rl_ipcp_uipcp_set(
                         ipcp_add([St0 EXCEPT !.rc_open = [rc \in Rcs |-> TRUE]],
                                  "x", "d1", "normal", TRUE),
                         1, 0)).ipcp_table
    /\ ipcp_id_bitmap = {0}
    /\ difs = <<[name |-> "d1", ty |-> "normal", refcnt |-> 1]>>
    /\ appl_removeq = <<>>
    /\ flows = EmptyTable
    /\ flow_table = EmptyTable
    /\ port_id_bitmap = {}
    /\ flow_table_by_cep = EmptyTable
    /\ cep_id_bitmap = {}
    /\ flows_putq = <<>>
    /\ flows_putq_tmr = NO_EXPIRY
    /\ flows_removeq = <<>>
    /\ uid_cnt = 0
    /\ dm_refcnt = NumRc + 1
    /\ jiffies = 0
    /\ last = [op |-> "init", ret |-> 0]
    /\ app_log = [rc \in Rcs |-> <<>>]
    /\ read_log = [rc \in Rcs |-> <<>>]
    /\ msg_cnt = 0
    /\ nops = 0
    /\ dealloc_call = [t \in Threads |-> NoCall]
    /\ flows_lock = "free"
    /\ drain_call = NoCall
    /\ rio_flow = NO_ID
    /\ write_call = [t \in Threads |-> NoCall]

IpcpConfigs ==
    {<<"x", "d1", "normal">>, <<"y", "d1", "normal">>, <<"y", "d2", "shim">>}
RegApplNames == {"a"}

Close == \E rc \in Rcs : ctrl_close(rc)

Release == \E rc \in Rcs : rl_ctrl_release(rc)

\* A reader that rl_ctrl_poll() reported readable, with a buffer large enough
\* for any control message.
PolledRead ==
    \E rc \in {r \in Rcs : upqueue[r] # <<>>} :
        rl_ctrl_read(rc, MsgSerLen, FALSE, FALSE, FALSE)

IpcpCreate ==
    \E rc \in Rcs, c \in IpcpConfigs :
        rl_ctrl_write(rc, "IPCP_CREATE", [name |-> c[1], dif_name |-> c[2]],
                      rl_ipcp_create(St, rc, 1, c[1], c[2], c[3], TRUE))

IpcpDestroy ==
    \E rc \in Rcs, ipcp_id \in IpcpIds :
        rl_ctrl_write(rc, "IPCP_DESTROY", [ipcp_id |-> ipcp_id],
                      rl_ipcp_destroy(St, rc, ipcp_id))

UipcpSet ==
    \E rc \in Rcs, ipcp_id \in IpcpIds :
        rl_ctrl_write(rc, "IPCP_UIPCP_SET", [ipcp_id |-> ipcp_id],
                      rl_ipcp_uipcp_set(St, rc, ipcp_id))

ApplRegisterReq ==
    \E rc \in Rcs, event_id \in EventIds,
       dif_name \in DifNames \cup {NoName}, reg \in BOOLEAN,
       appl_name \in RegApplNames, hook_ret \in {0, EINVAL} :
        rl_ctrl_write(rc, "APPL_REGISTER",
                      [event_id |-> event_id, dif_name |-> dif_name,
                       reg |-> reg, appl_name |-> appl_name],
                      rl_appl_register(St, rc, event_id, dif_name, reg,
                                       appl_name, hook_ret))

ApplRegisterRespReq ==
    \E rc \in Rcs, ipcp_id \in IpcpIds, reg \in BOOLEAN,
       response \in {RLITE_SUCC, RLITE_ERR}, appl_name \in RegApplNames :
        rl_ctrl_write(rc, "APPL_REGISTER_RESP",
                      [ipcp_id |-> ipcp_id, reg |-> reg,
                       response |-> response, appl_name |-> appl_name],
                      rl_appl_register_resp(St, rc, 0, ipcp_id, reg, response,
                                            appl_name))

ApplRemoveWork == appl_removew_func

NextReg ==
    \/ Close \/ Release \/ PolledRead
    \/ IpcpCreate \/ IpcpDestroy \/ UipcpSet
    \/ ApplRegisterReq \/ ApplRegisterRespReq \/ ApplRemoveWork

SpecReg == InitReg /\ [][NextReg]_vars

\* Flow allocation.  Device 1 belongs to the uipcp daemon, which has created
\* IPCP "x" of DIF "d1" (normal) and attached to it, and IPCP "y" of DIF
\* "d2" (shim); device 2 belongs to an application that registered "a" with
\* IPCP "x", the uipcp having accepted the registration.  Both devices are
\* open and their queues have been read: the state reached from the fresh
\* module by IPCP_CREATE("x"), IPCP_UIPCP_SET, IPCP_CREATE("y"),
\* APPL_REGISTER("a") and APPL_REGISTER_RESP, each followed by a read.
\* The IPCPs and DIFs the flow specifications start with: IPCP 0 of DIF
\* "d1" with a uipcp on device 1 and an application of device 2 registered,
\* IPCP 1 of DIF "d2" with kernel hooks.
FlowIpcps ==
    (0 :> [name |-> "x", dif |-> "d1", dif_ty |-> "normal",
           refcnt |-> 2, zombie |-> FALSE, uipcp |-> 1,
           txhdroom |-> 0, flow_del_wait |-> FLOW_DEL_WAIT,
           rxhdroom |-> 0, max_sdu_size |-> 2 ^ 16 - 1,
           addr |-> RL_ADDR_NULL,
           priv |-> TRUE, ops |-> FactoryOps("normal"),
           registered_appls |->
               <<[name |-> "a", rc |-> 2, event_id |-> 1,
                  state |-> "APPL_REG_COMPLETE", refcnt |-> 1,
                  ipcp |-> 0]>>])
    @@
    (1 :> [name |-> "y", dif |-> "d2", dif_ty |-> "shim",
           refcnt |-> 1, zombie |-> FALSE, uipcp |-> NULL,
           txhdroom |-> 0, flow_del_wait |-> FLOW_DEL_WAIT,
           rxhdroom |-> 0, max_sdu_size |-> 2 ^ 16 - 1,
           addr |-> RL_ADDR_NULL,
           priv |-> TRUE, ops |-> FactoryOps("shim"),
           registered_appls |-> <<>>])

FlowDifs ==
    <<[name |-> "d1", ty |-> "normal", refcnt |-> 1],
      [name |-> "d2", ty |-> "shim", refcnt |-> 1]>>

InitFlow ==
    /\ rc_open = [rc \in Rcs |-> TRUE]
    /\ rc_fd = [rc \in Rcs |-> TRUE]
    /\ rc_fcnt = [rc \in Rcs |-> 1]
    /\ rc_flags = [rc \in Rcs |-> 0]
    /\ flows_fetch_q = [rc \in Rcs |-> <<>>]
    /\ upqueue = [rc \in Rcs |-> <<>>]
    /\ upqueue_size = [rc \in Rcs |-> 0]
    /\ ipcp_table = FlowIpcps
    /\ ipcp_id_bitmap = {0, 1}
    /\ difs = FlowDifs
    /\ appl_removeq = <<>>
    /\ flows = EmptyTable
    /\ flow_table = EmptyTable
    /\ port_id_bitmap = {}
    /\ flow_table_by_cep = EmptyTable
    /\ cep_id_bitmap = {}
    /\ flows_putq = <<>>
    /\ flows_putq_tmr = NO_EXPIRY
    /\ flows_removeq = <<>>
    /\ uid_cnt = 0
    /\ dm_refcnt = NumRc + Cardinality(DOMAIN FlowIpcps)
    /\ jiffies = 0
    /\ last = [op |-> "init", ret |-> 0]
    /\ app_log = [rc \in Rcs |-> <<>>]
    /\ read_log = [rc \in Rcs |-> <<>>]
    /\ msg_cnt = 0
    /\ nops = 0
    /\ dealloc_call = [t \in Threads |-> NoCall]
    /\ flows_lock = "free"
    /\ drain_call = NoCall
    /\ rio_flow = NO_ID
    /\ write_call = [t \in Threads |-> NoCall]

\* The requests written in one behaviour of the flow specification are
\* bounded by MaxFlowOps.
FlowBudget == nops < MaxFlowOps

RemotePorts == {7}
RemoteAddrs == {9}
Responses == {0, 1}

FaReqReq ==
    \E rc \in Rcs, event_id \in EventIds, dif_name \in {"d1", NoName},
       hook_ret \in {0, EINVAL} :
        /\ FlowBudget
        /\ uid_cnt < MaxUid
        /\ rl_ctrl_write(rc, "FA_REQ",
                         [event_id |-> event_id, dif_name |-> dif_name],
                         rl_fa_req(St, rc, event_id, dif_name, NO_ID,
                                   hook_ret))

FaRespReq ==
    \E rc \in Rcs, kevent_id \in EventIds, port_id \in PortIds,
       response \in Responses :
        /\ FlowBudget
        /\ rl_ctrl_write(rc, "FA_RESP",
                         [kevent_id |-> kevent_id, port_id |-> port_id,
                          response |-> response],
                         rl_fa_resp(St, rc, kevent_id, port_id, response, NO_ID,
                                    0))

UipcpFaReqArrived ==
    \E rc \in {1}, ipcp_id \in IpcpIds, kevent_id \in EventIds,
       remote_port \in RemotePorts, remote_addr \in RemoteAddrs :
        /\ FlowBudget
        /\ uid_cnt < MaxUid
        /\ rl_ctrl_write(rc, "UIPCP_FA_REQ_ARRIVED",
                         [ipcp_id |-> ipcp_id, kevent_id |-> kevent_id,
                          local_appl |-> "a"],
                         rl_uipcp_fa_req_arrived(St, rc, ipcp_id, kevent_id,
                                                 remote_port, remote_addr,
                                                 "a"))

UipcpFaRespArrived ==
    \E rc \in {1}, ipcp_id \in IpcpIds, local_port \in PortIds,
       remote_port \in RemotePorts, remote_addr \in RemoteAddrs,
       response \in Responses :
        /\ FlowBudget
        /\ rl_ctrl_write(rc, "UIPCP_FA_RESP_ARRIVED",
                         [ipcp_id |-> ipcp_id, local_port |-> local_port,
                          response |-> response],
                         rl_uipcp_fa_resp_arrived(St, rc, ipcp_id, local_port,
                                                  remote_port, remote_addr,
                                                  response))

FlowIpcpDestroy ==
    \E ipcp_id \in IpcpIds :
        /\ FlowBudget
        /\ rl_ctrl_write(1, "IPCP_DESTROY", [ipcp_id |-> ipcp_id],
                         rl_ipcp_destroy(St, 1, ipcp_id))

FlowApplRegister ==
    \E rc \in Rcs, dif_name \in {"d1", NoName}, reg \in BOOLEAN :
        /\ FlowBudget
        /\ rl_ctrl_write(rc, "APPL_REGISTER",
                         [event_id |-> 2, dif_name |-> dif_name, reg |-> reg,
                          appl_name |-> "a"],
                         rl_appl_register(St, rc, 2, dif_name, reg, "a", 0))

PutqTimer == flows_putq_drain

FlowRemoveWork == flows_removew_func

NextFlow ==
    \/ FlowIpcpDestroy \/ FlowApplRegister
    \/ FaReqReq \/ FaRespReq \/ UipcpFaReqArrived \/ UipcpFaRespArrived
    \/ PolledRead \/ ApplRemoveWork \/ Tick \/ PutqTimer \/ FlowRemoveWork

SpecFlow == InitFlow /\ [][NextFlow]_vars

(***************************************************************************)
(* The IPCP update subscription next to flows and IPCP destruction.        *)
(***************************************************************************)
\* Device 2 turns its subscription on or off.
Ioctl == \E rc \in {2}, flags \in {0, RL_F_IPCPS} : rl_ctrl_ioctl(rc, flags)

NextSub ==
    \/ Ioctl \/ FlowIpcpDestroy \/ FaReqReq
    \/ PolledRead \/ Tick \/ PutqTimer \/ FlowRemoveWork

SpecSub == InitFlow /\ [][NextSub]_vars

\* The same with the registrations and the removal worker of the
\* applications; the timer and the workers eventually run.
NextZombie ==
    \/ Ioctl \/ FlowIpcpDestroy \/ FaReqReq \/ FlowApplRegister
    \/ PolledRead \/ ApplRemoveWork \/ Tick \/ PutqTimer \/ FlowRemoveWork

FairZombie ==
    /\ WF_vars(Tick) /\ WF_vars(PutqTimer)
    /\ WF_vars(FlowRemoveWork) /\ WF_vars(ApplRemoveWork)

SpecZombie == InitFlow /\ [][NextZombie]_vars /\ FairZombie

(***************************************************************************)
(* Flow requests while control devices, the uipcp among them, are closed.  *)
(***************************************************************************)
NextOrphan ==
    \/ Close \/ Release \/ FaReqReq
    \/ PolledRead \/ Tick \/ PutqTimer \/ FlowRemoveWork

SpecOrphan == InitFlow /\ [][NextOrphan]_vars

\* The whole life of the rl_dm: flows are requested, the IPCPs destroyed and
\* the control devices closed in any order, next to the timer and the
\* workers.
NextDm ==
    \/ Close \/ Release \/ FlowIpcpDestroy \/ FaReqReq \/ FlowApplRegister
    \/ PolledRead \/ ApplRemoveWork \/ Tick \/ PutqTimer \/ FlowRemoveWork

SpecDm == InitFlow /\ [][NextDm]_vars

(***************************************************************************)
(* Creation requests with the id bitmaps full: both IPCP ids are taken     *)
(* from the start, and flows are requested until the port ids are.         *)
(***************************************************************************)
ExhaustConfigs ==
    {<<"z", "d1", "normal">>, <<"z", "d3", "normal">>, <<"x", "d3", "normal">>,
     <<"z", "d1", "shim">>, <<"z", "d2", "normal">>}

ExhaustIpcpCreate ==
    \E c \in ExhaustConfigs :
        rl_ctrl_write(1, "IPCP_CREATE",
                      [name |-> c[1], dif_name |-> c[2], dif_type |-> c[3]],
                      rl_ipcp_create(St, 1, 1, c[1], c[2], c[3], TRUE))

ExhaustFaReq ==
    \E rc \in Rcs, dif_name \in DifNames :
        /\ uid_cnt <= MaxUid
        /\ rl_ctrl_write(rc, "FA_REQ",
                         [event_id |-> 1, dif_name |-> dif_name],
                         rl_fa_req(St, rc, 1, dif_name, NO_ID, 0))

ExhaustFaReqArrived ==
    \E ipcp_id \in IpcpIds :
        /\ uid_cnt <= MaxUid
        /\ rl_ctrl_write(1, "UIPCP_FA_REQ_ARRIVED",
                         [ipcp_id |-> ipcp_id, kevent_id |-> 1,
                          local_appl |-> "a"],
                         rl_uipcp_fa_req_arrived(St, 1, ipcp_id, 1, 7, 9, "a"))

NextExhaust ==
    \/ ExhaustIpcpCreate \/ ExhaustFaReq \/ ExhaustFaReqArrived
    \/ FlowIpcpDestroy
    \/ PolledRead \/ Tick \/ PutqTimer \/ FlowRemoveWork

SpecExhaust == InitFlow /\ [][NextExhaust]_vars

(***************************************************************************)
(* Configuration of the IPCPs, with device 2 subscribing to the updates.   *)
(***************************************************************************)
ConfigNames ==
    {"txhdroom", "rxhdroom", "mss", "flow-del-wait-ms", "address", "bogus"}

IpcpConfig ==
    \E rc \in Rcs, ipcp_id \in IpcpIds, name \in ConfigNames,
       value \in ConfigValues :
        rl_ctrl_write(rc, "IPCP_CONFIG",
                      [ipcp_id |-> ipcp_id, name |-> name, value |-> value],
                      rl_ipcp_config(St, rc, ipcp_id, name, value))

NextConfig == IpcpConfig \/ Ioctl \/ FlowIpcpDestroy \/ PolledRead

SpecConfig == InitFlow /\ [][NextConfig]_vars

(***************************************************************************)
(* Enumeration of the flows next to flow creation and removal.             *)
(***************************************************************************)
FlowFetch ==
    \E rc \in Rcs, ipcp_id \in IpcpIds \cup {NO_ID} :
        rl_ctrl_write(rc, "FLOW_FETCH", [event_id |-> 2, ipcp_id |-> ipcp_id],
                      rl_flow_fetch(St, rc, 2, ipcp_id))

NextFetch ==
    \/ FlowFetch \/ ExhaustFaReq \/ FlowIpcpDestroy
    \/ PolledRead \/ Tick \/ PutqTimer \/ FlowRemoveWork

SpecFetch == InitFlow /\ [][NextFetch]_vars

(***************************************************************************)
(* FLOW_DEALLOC: rl_flow_dealloc() run by several threads at once.  The    *)
(* handler takes the flow lock in flow_get() and in flow_put() and the     *)
(* receive lock in rl_flow_shutdown(); the three critical sections are the *)
(* steps of a call.                                                        *)
(***************************************************************************)
Uids == 0..(MaxUid - 1)

\* rl_flow_shutdown(flow): the EOF condition is raised together with the
\* DEALLOCATED flag.
rl_flow_shutdown(S, flow) ==
    IF "ALLOCATED" \in S.flows[flow].flags
    THEN [S EXCEPT !.flows[flow].flags = @ \cup {"DEALLOCATED"}]
    ELSE S

\* The test of rl_flow_dealloc() on the flow it looked up.
dealloc_match_mut(S, flow, uid) == flow # NO_ID
dealloc_match(S, flow, uid) == flow # NO_ID /\ S.flows[flow].uid = uid

DeallocArgs(port_id, uid) == [port_id |-> port_id, uid |-> uid]

\* rl_ctrl_write() of a FLOW_DEALLOC up to the end of flow_get(); a writer
\* without the capability is refused before the handler runs.
FlowDeallocGet(t) ==
    \E rc \in Rcs, port_id \in PortIds, uid \in Uids :
        /\ dealloc_call[t] = NoCall
        /\ CanWrite(rc)
        /\ nops' = nops + 1
        /\ IF ~capable(rc)
           THEN /\ Commit(St)
                /\ last' = [op |-> "FLOW_DEALLOC", ret |-> EPERM, rc |-> rc,
                            args |-> DeallocArgs(port_id, uid), thread |-> t]
                /\ UNCHANGED dealloc_call
           ELSE /\ \E S \in {flow_get(St, port_id)} :
                      /\ Commit(S)
                      /\ dealloc_call' =
                             [dealloc_call EXCEPT ![t] =
                                 [pc |-> "shutdown", rc |-> rc,
                                  port_id |-> port_id, uid |-> uid,
                                  flow |-> S.val, ret |-> ENXIO]]
                /\ UNCHANGED last
        /\ UNCHANGED <<jiffies, hist_vars, flows_lock, drain_call, rio_flow, write_call>>

\* The uid test and rl_flow_shutdown().
FlowDeallocShutdown(t) ==
    LET c == dealloc_call[t] IN
    /\ c.pc = "shutdown"
    /\ IF dealloc_match(St, c.flow, c.uid)
       THEN /\ Commit(rl_flow_shutdown(St, c.flow))
            /\ dealloc_call' =
                   [dealloc_call EXCEPT ![t] = [c EXCEPT !.pc = "put",
                                                        !.ret = 0]]
       ELSE /\ Commit(St)
            /\ dealloc_call' =
                   [dealloc_call EXCEPT ![t] = [c EXCEPT !.pc = "put"]]
    /\ UNCHANGED <<jiffies, hist_vars, nops, last, flows_lock, drain_call, rio_flow, write_call>>

\* flow_put() and the return to the writer.
FlowDeallocPut(t) ==
    LET c == dealloc_call[t] IN
    /\ c.pc = "put"
    /\ \E S \in {flow_put(St, c.flow)} : Commit(S)
    /\ last' = [op |-> "FLOW_DEALLOC", ret |-> c.ret, rc |-> c.rc,
                args |-> DeallocArgs(c.port_id, c.uid), thread |-> t]
    /\ dealloc_call' = [dealloc_call EXCEPT ![t] = NoCall]
    /\ UNCHANGED <<jiffies, hist_vars, nops, flows_lock, drain_call, rio_flow, write_call>>

\* The state in which device 2 has requested a flow on DIF "d1" and the
\* uipcp has reported the positive response of the peer: flow 0 is
\* ALLOCATED on port 0 with a valid remote port and address.
AllocatedSt ==
    rl_uipcp_fa_resp_arrived(
        rl_fa_req([St0 EXCEPT !.rc_open = [rc \in Rcs |-> TRUE],
                              !.rc_fd = [rc \in Rcs |-> TRUE],
                              !.rc_fcnt = [rc \in Rcs |-> 1],
                              !.ipcp_table = FlowIpcps,
                              !.ipcp_id_bitmap = {0, 1},
                              !.difs = FlowDifs,
                              !.dm_refcnt =
                                  NumRc + Cardinality(DOMAIN FlowIpcps)],
                  2, 1, "d1", NO_ID, 0),
        1, 0, 0, 7, 9, 0)

InitDealloc ==
    /\ rc_open = AllocatedSt.rc_open
    /\ rc_fd = AllocatedSt.rc_fd
    /\ rc_fcnt = AllocatedSt.rc_fcnt
    /\ rc_flags = AllocatedSt.rc_flags
    /\ flows_fetch_q = AllocatedSt.flows_fetch_q
    /\ upqueue = AllocatedSt.upqueue
    /\ upqueue_size = AllocatedSt.upqueue_size
    /\ ipcp_table = AllocatedSt.ipcp_table
    /\ ipcp_id_bitmap = AllocatedSt.ipcp_id_bitmap
    /\ difs = AllocatedSt.difs
    /\ appl_removeq = AllocatedSt.appl_removeq
    /\ flows = AllocatedSt.flows
    /\ flow_table = AllocatedSt.flow_table
    /\ port_id_bitmap = AllocatedSt.port_id_bitmap
    /\ flow_table_by_cep = AllocatedSt.flow_table_by_cep
    /\ cep_id_bitmap = AllocatedSt.cep_id_bitmap
    /\ flows_putq = AllocatedSt.flows_putq
    /\ flows_putq_tmr = AllocatedSt.flows_putq_tmr
    /\ flows_removeq = AllocatedSt.flows_removeq
    /\ uid_cnt = AllocatedSt.uid_cnt
    /\ dm_refcnt = AllocatedSt.dm_refcnt
    /\ jiffies = 0
    /\ last = [op |-> "init", ret |-> 0]
    /\ app_log = [rc \in Rcs |-> <<>>]
    /\ read_log = [rc \in Rcs |-> <<>>]
    /\ msg_cnt = 0
    /\ nops = 0
    /\ dealloc_call = [t \in Threads |-> NoCall]
    /\ flows_lock = "free"
    /\ drain_call = NoCall
    /\ rio_flow = NO_ID
    /\ write_call = [t \in Threads |-> NoCall]

DeallocGet == \E t \in Threads : FlowDeallocGet(t)
DeallocShutdown == \E t \in Threads : FlowDeallocShutdown(t)
DeallocPut == \E t \in Threads : FlowDeallocPut(t)

\* A new flow request, which may reuse the port of a flow that is gone.
DeallocFaReq ==
    /\ uid_cnt < MaxUid
    /\ rl_ctrl_write(2, "FA_REQ", [event_id |-> 2, dif_name |-> "d1"],
                     rl_fa_req(St, 2, 2, "d1", NO_ID, 0))

NextDealloc ==
    \/ DeallocGet \/ DeallocShutdown \/ DeallocPut \/ DeallocFaReq
    \/ PolledRead \/ Tick \/ PutqTimer \/ FlowRemoveWork

SpecDealloc == InitDealloc /\ [][NextDealloc]_vars

(***************************************************************************)
(* The sweep of the flows that are never bound: flows are requested and    *)
(* answered and no I/O device is opened.  The clock advances, a pending    *)
(* timer fires and scheduled work runs.                                    *)
(***************************************************************************)
NextSweep ==
    \/ FaReqReq \/ FaRespReq \/ UipcpFaReqArrived \/ UipcpFaRespArrived
    \/ Tick \/ PutqTimer \/ FlowRemoveWork

FairSweep == WF_vars(Tick) /\ WF_vars(PutqTimer) /\ WF_vars(FlowRemoveWork)

SpecSweep == InitFlow /\ [][NextSweep]_vars /\ FairSweep

\* The same behaviours up to the first failed BUG_ON().
SpecSweepNoOops ==
    InitFlow /\ [][NextSweep /\ last'.ret # OOPS]_vars /\ FairSweep

(***************************************************************************)
(* The I/O device.  Its file operations are outside kernel/ctrl-dev.c; an  *)
(* application that opens the device on a flow takes a reference with      *)
(* flow_get(), keeps it in rio->flow and calls flow_make_mortal(); closing *)
(* the device gives the reference back with flow_put().                    *)
(***************************************************************************)
IoBind ==
    \E port_id \in PortIds :
        /\ rio_flow = NO_ID
        /\ flow_lookup(St, port_id) # NO_ID
        /\ \E S \in {flow_make_mortal(flow_get(St, port_id),
                                      flow_lookup(St, port_id))} : Commit(S)
        /\ rio_flow' = flow_lookup(St, port_id)
        /\ last' = [op |-> "rl_io_bind", ret |-> 0,
                    flow |-> flow_lookup(St, port_id)]
        /\ UNCHANGED <<jiffies, hist_vars, nops, dealloc_call, flows_lock,
                       drain_call, write_call>>

IoRelease ==
    /\ rio_flow # NO_ID
    /\ \E S \in {flow_put(St, rio_flow)} : Commit(S)
    /\ rio_flow' = NO_ID
    /\ last' = [op |-> "rl_io_release", ret |-> 0, flow |-> rio_flow]
    /\ UNCHANGED <<jiffies, hist_vars, nops, dealloc_call, flows_lock,
                   drain_call, write_call>>

\* Somebody still points to the flow: the I/O device, a thread inside
\* rl_flow_dealloc(), or the put-queue.
StillPointedTo(flow) ==
    \/ rio_flow = flow
    \/ \E t \in Threads : dealloc_call[t] # NoCall /\ dealloc_call[t].flow = flow
    \/ \E i \in 1..Len(flows_putq) : flows_putq[i] = flow

\* The removal worker.  flow_del() of an entry that somebody still points
\* to frees memory in use, and what the program does afterwards is
\* undefined: the behaviours are followed up to that point.
BindRemoveWork ==
    /\ \A i \in 1..Len(flows_removeq) : ~StillPointedTo(flows_removeq[i])
    /\ flows_removew_func

NextBind ==
    \/ IoBind \/ IoRelease
    \/ DeallocGet \/ DeallocShutdown \/ DeallocPut \/ DeallocFaReq
    \/ Tick \/ PutqTimer \/ BindRemoveWork

SpecBind == InitDealloc /\ [][NextBind]_vars

\* FLOW_DEALLOC next to flows of both sides: the uipcp reports flow requests
\* of the peers, with the kevent_id it chose, and device 2 requests flows.
\* The uipcp of IPCP 0 reports one request, so that it never uses a
\* kevent_id twice.
UidFaReqArrived ==
    \E kevent_id \in EventIds :
        /\ FlowBudget
        /\ uid_cnt = 0
        /\ rl_ctrl_write(1, "UIPCP_FA_REQ_ARRIVED",
                         [ipcp_id |-> 0, kevent_id |-> kevent_id,
                          local_appl |-> "a"],
                         rl_uipcp_fa_req_arrived(St, 1, 0, kevent_id, 7, 9,
                                                 "a"))

NextUid ==
    \/ UidFaReqArrived \/ DeallocFaReq \/ UipcpFaRespArrived
    \/ DeallocGet \/ DeallocShutdown \/ DeallocPut
    \/ PolledRead \/ Tick \/ PutqTimer \/ BindRemoveWork

SpecUid == InitFlow /\ [][NextUid]_vars

(***************************************************************************)
(* Handlers running at the same time on several control devices.           *)
(* rl_ctrl_write() holds no lock across a handler: APPL_REGISTER and       *)
(* FA_REQ look the IPCP up with ipcp_select_by_dif() and                   *)
(* UIPCP_FA_REQ_ARRIVED with ipcp_get(), each inside a critical section of *)
(* the IPCP table lock, and go on with the entry afterwards.  Another      *)
(* device's IPCP_DESTROY may run between the two.                          *)
(***************************************************************************)
RaceDifs == {"d1", "d2"}
RaceAppls == {"a", "b"}
\* IPCP_DESTROY is written on device 1; the applications use the others.
RaceRcs == Rcs \ {1}

RaceUnchanged ==
    UNCHANGED <<jiffies, hist_vars, dealloc_call, flows_lock, drain_call,
                rio_flow>>

\* The handler's call of ipcp_select_by_dif().
RegSelect ==
    \E t \in Threads, rc \in RaceRcs, dif_name \in RaceDifs, appl \in RaceAppls :
        /\ write_call[t] = NoCall
        /\ CanWrite(rc)
        /\ nops' = nops + 1
        /\ \E S \in {ipcp_select_by_dif(St, dif_name)} :
               /\ Commit(S)
               /\ write_call' =
                      [write_call EXCEPT ![t] =
                          [pc |-> "selected", op |-> "APPL_REGISTER",
                           rc |-> rc, ipcp |-> S.val, dif_name |-> dif_name,
                           appl_name |-> appl]]
        /\ UNCHANGED last
        /\ RaceUnchanged

\* The rest of rl_appl_register().
RegAdd ==
    \E t \in Threads :
        LET c == write_call[t] IN
        /\ c # NoCall
        /\ c.op = "APPL_REGISTER"
        /\ \E S \in {appl_register_selected([St EXCEPT !.val = c.ipcp], c.rc,
                                             2, c.dif_name, TRUE,
                                             c.appl_name, 0)} :
               /\ Commit(S)
               /\ last' = [op |-> "APPL_REGISTER", ret |-> S.ret, rc |-> c.rc,
                           args |-> [ipcp_id |-> c.ipcp,
                                     appl_name |-> c.appl_name],
                           thread |-> t]
        /\ write_call' = [write_call EXCEPT ![t] = NoCall]
        /\ UNCHANGED nops
        /\ RaceUnchanged

FaReqSelect ==
    \E t \in Threads, rc \in RaceRcs, dif_name \in RaceDifs :
        /\ write_call[t] = NoCall
        /\ CanWrite(rc)
        /\ uid_cnt < MaxUid
        /\ nops' = nops + 1
        /\ \E S \in {ipcp_select_by_dif(St, dif_name)} :
               /\ Commit(S)
               /\ write_call' =
                      [write_call EXCEPT ![t] =
                          [pc |-> "selected", op |-> "FA_REQ", rc |-> rc,
                           ipcp |-> S.val, dif_name |-> dif_name]]
        /\ UNCHANGED last
        /\ RaceUnchanged

\* The rest of rl_fa_req().
FaReqAdd ==
    \E t \in Threads :
        LET c == write_call[t] IN
        /\ c # NoCall
        /\ c.op = "FA_REQ"
        /\ \E S \in {fa_req_selected([St EXCEPT !.val = c.ipcp], c.rc, 1,
                                      c.dif_name, NO_ID, 0)} :
               /\ Commit(S)
               /\ last' = [op |-> "FA_REQ", ret |-> S.ret, rc |-> c.rc,
                           args |-> [ipcp_id |-> c.ipcp], thread |-> t]
        /\ write_call' = [write_call EXCEPT ![t] = NoCall]
        /\ UNCHANGED nops
        /\ RaceUnchanged

\* rl_uipcp_fa_req_arrived() up to the return of ipcp_get(); the writer
\* is a second thread of the uipcp, which has the capability.
ArrivedGet ==
    \E t \in Threads, rc \in Rcs, ipcp_id \in IpcpIds, appl \in RaceAppls :
        /\ write_call[t] = NoCall
        /\ CanWrite(rc)
        /\ capable(rc)
        /\ uid_cnt < MaxUid
        /\ nops' = nops + 1
        /\ \E S \in {ipcp_get(St, ipcp_id)} :
               /\ Commit(S)
               /\ write_call' =
                      [write_call EXCEPT ![t] =
                          [pc |-> "selected", op |-> "UIPCP_FA_REQ_ARRIVED",
                           rc |-> rc, ipcp |-> S.val, appl_name |-> appl]]
        /\ UNCHANGED last
        /\ RaceUnchanged

\* The rest of rl_uipcp_fa_req_arrived().
ArrivedAdd ==
    \E t \in Threads :
        LET c == write_call[t] IN
        /\ c # NoCall
        /\ c.op = "UIPCP_FA_REQ_ARRIVED"
        /\ \E S \in {IF c.ipcp # NO_ID
                      THEN Bind(rl_fa_req_arrived(St, c.ipcp, 1, 7, 9,
                                                  c.appl_name, TRUE),
                                LAMBDA S2 : SetRet(ipcp_put(S2, c.ipcp),
                                                   S2.ret))
                      ELSE SetRet(St, EINVAL)} :
               /\ Commit(S)
               /\ last' = [op |-> "UIPCP_FA_REQ_ARRIVED", ret |-> S.ret,
                           rc |-> c.rc, args |-> [ipcp_id |-> c.ipcp],
                           thread |-> t]
        /\ write_call' = [write_call EXCEPT ![t] = NoCall]
        /\ UNCHANGED nops
        /\ RaceUnchanged

NextRace ==
    \/ RegSelect \/ RegAdd \/ FaReqSelect \/ FaReqAdd
    \/ ArrivedGet \/ ArrivedAdd
    \/ FlowIpcpDestroy

SpecRace == InitFlow /\ [][NextRace]_vars

(***************************************************************************)
(* UIPCP_FA_RESP_ARRIVED in two steps, next to the put-queue timer.  The   *)
(* handler takes its reference with flow_get() under the read lock of the  *)
(* flows and runs the rest without it: the timer callback may run between  *)
(* the two, and so may the other handlers.                                 *)
(***************************************************************************)
\* rl_uipcp_fa_resp_arrived() up to the return of flow_get(), which found
\* the flow.
RespArrivedGet ==
    \E t \in Threads, ipcp_id \in IpcpIds, local_port \in PortIds,
       response \in Responses :
        /\ write_call[t] = NoCall
        /\ CanWrite(1)
        /\ FlowBudget
        /\ ipcp_id \in DOMAIN ipcp_table
        /\ flow_lookup(St, local_port) # NO_ID
        /\ nops' = nops + 1
        /\ \E S \in {flow_get(ipcp_get(St, ipcp_id), local_port)} :
               /\ Commit(S)
               /\ write_call' =
                      [write_call EXCEPT ![t] =
                          [pc |-> "got", op |-> "UIPCP_FA_RESP_ARRIVED",
                           rc |-> 1, ipcp |-> ipcp_id, flow |-> S.val,
                           local_port |-> local_port,
                           response |-> response]]
        /\ UNCHANGED last
        /\ RaceUnchanged

\* The rest of rl_uipcp_fa_resp_arrived().
RespArrivedTail ==
    \E t \in Threads, remote_port \in RemotePorts, remote_addr \in RemoteAddrs :
        LET c == write_call[t] IN
        /\ c # NoCall
        /\ c.op = "UIPCP_FA_RESP_ARRIVED"
        /\ \E S \in {Bind(fa_resp_arrived_got(St, c.flow, c.local_port,
                                              remote_port, remote_addr,
                                              c.response, TRUE),
                          LAMBDA S2 : SetRet(ipcp_put(S2, c.ipcp), S2.ret))} :
               /\ Commit(S)
               /\ last' = [op |-> "UIPCP_FA_RESP_ARRIVED", ret |-> S.ret,
                           rc |-> c.rc,
                           args |-> [ipcp_id |-> c.ipcp,
                                     local_port |-> c.local_port,
                                     response |-> c.response],
                           thread |-> t, flow |-> c.flow]
        /\ write_call' = [write_call EXCEPT ![t] = NoCall]
        /\ UNCHANGED nops
        /\ RaceUnchanged

\* The removal worker; the behaviours are followed up to the point where it
\* would free an entry that a thread inside the handler still uses.
RespRemoveWork ==
    /\ \A i \in 1..Len(flows_removeq) : \A t \in Threads :
           write_call[t] # NoCall => write_call[t].flow # flows_removeq[i]
    /\ flows_removew_func

NextTimer ==
    \/ FaReqReq \/ UipcpFaReqArrived \/ RespArrivedGet \/ RespArrivedTail
    \/ PolledRead \/ Tick \/ PutqTimer \/ RespRemoveWork

SpecTimer == InitFlow /\ [][NextTimer]_vars

(***************************************************************************)
(* Two IPCP_DESTROY requests at once.  ipcp_del() takes no lock between    *)
(* its test of RL_K_IPCP_ZOMBIE and the statement that sets the flag, and  *)
(* rl_ctrl_write() takes none around the handler: the handler is split at  *)
(* the test.  The capability belongs to the process that writes, so the    *)
(* two threads are privileged processes, each writing to a control device  *)
(* it has a descriptor of.                                                 *)
(***************************************************************************)
\* ipcp_del() up to the test of RL_K_IPCP_ZOMBIE: ipcp_get(), ipcp_put() and
\* the test.  A lookup that fails and a flag found set end the handler.
DestroyTest ==
    \E t \in Threads, rc \in Rcs, ipcp_id \in IpcpIds :
        /\ write_call[t] = NoCall
        /\ CanWrite(rc)
        /\ FlowBudget
        /\ nops' = nops + 1
        /\ \E S \in {ipcp_get(St, ipcp_id)} :
               IF S.val = NO_ID
               THEN /\ Commit(S)
                    /\ last' = [op |-> "IPCP_DESTROY", ret |-> ENXIO,
                                rc |-> rc, args |-> [ipcp_id |-> ipcp_id],
                                thread |-> t]
                    /\ UNCHANGED write_call
               ELSE /\ Commit(ipcp_put(S, ipcp_id))
                    /\ IF S.ipcp_table[ipcp_id].zombie
                       THEN /\ last' = [op |-> "IPCP_DESTROY", ret |-> ENXIO,
                                        rc |-> rc,
                                        args |-> [ipcp_id |-> ipcp_id],
                                        thread |-> t]
                            /\ UNCHANGED write_call
                       ELSE /\ write_call' =
                                   [write_call EXCEPT ![t] =
                                       [pc |-> "tested", op |-> "IPCP_DESTROY",
                                        rc |-> rc, ipcp |-> ipcp_id]]
                            /\ UNCHANGED last
        /\ RaceUnchanged

\* The rest of ipcp_del() and of rl_ipcp_destroy(), on an entry that is
\* still in the table.
DestroySet ==
    \E t \in Threads :
        LET c == write_call[t] IN
        /\ c # NoCall
        /\ c.op = "IPCP_DESTROY"
        /\ c.ipcp \in DOMAIN ipcp_table
        /\ \E S \in {Bind(ipcp_del_tested(St, c.ipcp),
                          LAMBDA S1 :
                          IF S1.ret # 0 THEN S1
                          ELSE SetRet(upqueue_append_subscribed(
                                          S1, 1,
                                          IpcpUpdate("UIPCP_DEL", c.ipcp,
                                                     NoName, NoName)),
                                      0))} :
               /\ Commit(S)
               /\ last' = [op |-> "IPCP_DESTROY", ret |-> S.ret, rc |-> c.rc,
                           args |-> [ipcp_id |-> c.ipcp], thread |-> t,
                           zombie |-> ipcp_table[c.ipcp].zombie]
        /\ write_call' = [write_call EXCEPT ![t] = NoCall]
        /\ UNCHANGED nops
        /\ RaceUnchanged

\* The rest of ipcp_del() on an entry that the other thread has unlinked and
\* freed in the meantime: the handler writes to freed memory.  It either
\* returns 0 with no effect on the tables or the kernel stops the thread.
DestroyDangling ==
    \E t \in Threads, ret \in {0, OOPS} :
        LET c == write_call[t] IN
        /\ c # NoCall
        /\ c.op = "IPCP_DESTROY"
        /\ c.ipcp \notin DOMAIN ipcp_table
        /\ last' = [op |-> "IPCP_DESTROY", ret |-> ret, rc |-> c.rc,
                    args |-> [ipcp_id |-> c.ipcp], thread |-> t,
                    zombie |-> TRUE]
        /\ write_call' = [write_call EXCEPT ![t] = NoCall]
        /\ UNCHANGED <<nops, dm_refcnt, ctrl_vars, upq_vars, ipcp_vars,
                       flow_vars>>
        /\ RaceUnchanged

\* Every flow and every registration waiting for appl_del() points to an
\* IPCP of the table.  The behaviours are followed up to the point where an
\* IPCP is freed under one of them.
IpcpsLinked ==
    /\ \A flow \in DOMAIN flows : flows[flow].ipcp \in DOMAIN ipcp_table
    /\ \A i \in 1..Len(appl_removeq) :
           appl_removeq[i].ipcp \in DOMAIN ipcp_table

NextDestroy ==
    \/ DestroyTest \/ DestroySet \/ DestroyDangling
    \/ IpcpsLinked /\ FaReqReq
    \/ IpcpsLinked /\ PolledRead
    \/ IpcpsLinked /\ Tick
    \/ IpcpsLinked /\ PutqTimer
    \/ IpcpsLinked /\ FlowRemoveWork

SpecDestroy == InitFlow /\ [][NextDestroy]_vars

(***************************************************************************)
(* APPL_REGISTER(reg=false) in three steps.  ipcp_application_del() takes  *)
(* a reference with ipcp_application_get() under the lock of the           *)
(* registrations of the IPCP and then calls ipcp_application_put() twice,  *)
(* each call taking the lock for itself: other handlers may run before     *)
(* each of the two.                                                        *)
(***************************************************************************)
\* The state after device 2 has registered "b" with IPCP 1, whose
\* appl_register hook accepts it.
RegisteredSt ==
    rl_appl_register([St0 EXCEPT !.rc_open = [rc \in Rcs |-> TRUE],
                                 !.rc_fd = [rc \in Rcs |-> TRUE],
                                 !.rc_fcnt = [rc \in Rcs |-> 1],
                                 !.ipcp_table = FlowIpcps,
                                 !.ipcp_id_bitmap = {0, 1},
                                 !.difs = FlowDifs,
                                 !.dm_refcnt =
                                     NumRc + Cardinality(DOMAIN FlowIpcps)],
                     2, 1, "d2", TRUE, "b", 0)

\* The IPCPs of InitFlow with "a" registered with IPCP 0 and "b" with IPCP 1,
\* both by device 2; the queues have been read.
InitAppl ==
    /\ rc_open = [rc \in Rcs |-> TRUE]
    /\ rc_fd = [rc \in Rcs |-> TRUE]
    /\ rc_fcnt = [rc \in Rcs |-> 1]
    /\ rc_flags = [rc \in Rcs |-> 0]
    /\ flows_fetch_q = [rc \in Rcs |-> <<>>]
    /\ upqueue = [rc \in Rcs |-> <<>>]
    /\ upqueue_size = [rc \in Rcs |-> 0]
    /\ ipcp_table = RegisteredSt.ipcp_table
    /\ ipcp_id_bitmap = {0, 1}
    /\ difs = FlowDifs
    /\ appl_removeq = <<>>
    /\ flows = EmptyTable
    /\ flow_table = EmptyTable
    /\ port_id_bitmap = {}
    /\ flow_table_by_cep = EmptyTable
    /\ cep_id_bitmap = {}
    /\ flows_putq = <<>>
    /\ flows_putq_tmr = NO_EXPIRY
    /\ flows_removeq = <<>>
    /\ uid_cnt = 0
    /\ dm_refcnt = NumRc + Cardinality(DOMAIN FlowIpcps)
    /\ jiffies = 0
    /\ last = [op |-> "init", ret |-> 0]
    /\ app_log = [rc \in Rcs |-> <<>>]
    /\ read_log = [rc \in Rcs |-> <<>>]
    /\ msg_cnt = 0
    /\ nops = 0
    /\ dealloc_call = [t \in Threads |-> NoCall]
    /\ flows_lock = "free"
    /\ drain_call = NoCall
    /\ rio_flow = NO_ID
    /\ write_call = [t \in Threads |-> NoCall]

\* The DIF and the name of each registration.
ApplOfDif == {<<"d1", "a">>, <<"d2", "b">>}

\* The position of the application in the removal queue, or 0.
removeq_index(S, ipcp_id, appl_name) ==
    LET q == S.appl_removeq
        Is(i) == q[i].ipcp = ipcp_id /\ q[i].name = appl_name
    IN  IF \E i \in 1..Len(q) : Is(i)
        THEN CHOOSE i \in 1..Len(q) : Is(i)
        ELSE 0

\* The registered_appl is still allocated: in the list of its IPCP or in
\* the removal queue.
appl_allocated(S, ipcp_id, appl_name) ==
    \/ appl_index(S, ipcp_id, appl_name) # 0
    \/ removeq_index(S, ipcp_id, appl_name) # 0

\* ipcp_application_put(app) through the pointer that
\* ipcp_application_get() returned.  On an application that has left its
\* list it decrements a count that is not positive and returns.
application_put_held(S, ipcp_id, appl_name) ==
    IF appl_index(S, ipcp_id, appl_name) # 0
    THEN ipcp_application_put(S, ipcp_id, appl_name)
    ELSE [S EXCEPT !.appl_removeq[removeq_index(S, ipcp_id, appl_name)].refcnt
                       = @ - 1]

\* rl_appl_register() with reg = false up to the return of
\* ipcp_application_get(); a request that finds no IPCP, no uipcp or no
\* application ends here.
UnregGet ==
    \E t \in Threads, rc \in Rcs, c \in ApplOfDif :
        /\ write_call[t] = NoCall
        /\ CanWrite(rc)
        /\ FlowBudget
        /\ nops' = nops + 1
        /\ \E S1 \in {ipcp_select_by_dif(St, c[1])} :
               IF \/ S1.val = NO_ID
                  \/ /\ ~S1.ipcp_table[S1.val].ops.appl_register
                     /\ S1.ipcp_table[S1.val].uipcp = NULL
                  \/ appl_index(S1, S1.val, c[2]) = 0
               THEN \E S \in {appl_register_selected(S1, rc, 2, c[1], FALSE,
                                                     c[2], 0)} :
                        /\ Commit(S)
                        /\ last' = [op |-> "APPL_REGISTER", ret |-> S.ret,
                                    rc |-> rc,
                                    args |-> [ipcp_id |-> S1.val,
                                              appl_name |-> c[2]],
                                    thread |-> t]
                        /\ UNCHANGED write_call
               ELSE /\ Commit(ipcp_application_get(S1, S1.val, c[2]))
                    /\ write_call' =
                           [write_call EXCEPT ![t] =
                               [pc |-> "appgot", op |-> "APPL_REGISTER",
                                rc |-> rc, ipcp |-> S1.val,
                                dif_name |-> c[1], appl_name |-> c[2],
                                uipcp |-> reflect_uipcp(S1, S1.val),
                                puts |-> 2]]
                    /\ UNCHANGED last
        /\ RaceUnchanged

\* The first ipcp_application_put() of ipcp_application_del(), "to match
\* ipcp_application_get()".
UnregPut ==
    \E t \in Threads :
        LET c == write_call[t] IN
        /\ c # NoCall
        /\ c.op = "APPL_REGISTER"
        /\ c.puts = 2
        /\ appl_allocated(St, c.ipcp, c.appl_name)
        /\ Commit(application_put_held(St, c.ipcp, c.appl_name))
        /\ write_call' = [write_call EXCEPT ![t].puts = 1]
        /\ UNCHANGED <<last, nops>>
        /\ RaceUnchanged

\* The second ipcp_application_put(), "to remove the application", and the
\* rest of rl_appl_register().
UnregTail ==
    \E t \in Threads :
        LET c == write_call[t] IN
        /\ c # NoCall
        /\ c.op = "APPL_REGISTER"
        /\ c.puts = 1
        /\ appl_allocated(St, c.ipcp, c.appl_name)
        /\ \E S \in {appl_register_done(
                          SetRet(application_put_held(St, c.ipcp,
                                                      c.appl_name), 0),
                          c.rc, 2, c.dif_name, FALSE, c.appl_name, c.ipcp,
                          c.uipcp)} :
               /\ Commit(S)
               /\ last' = [op |-> "APPL_REGISTER", ret |-> S.ret, rc |-> c.rc,
                           args |-> [ipcp_id |-> c.ipcp,
                                     appl_name |-> c.appl_name],
                           thread |-> t]
        /\ write_call' = [write_call EXCEPT ![t] = NoCall]
        /\ UNCHANGED nops
        /\ RaceUnchanged

\* An ipcp_application_put() through a pointer to a registered_appl that
\* appl_del() has freed: the call writes to freed memory.  Either the
\* kernel stops the thread or the call returns with no effect on the
\* tables and the handler goes on.
UnregDangling ==
    \E t \in Threads, oops \in BOOLEAN :
        LET c == write_call[t] IN
        /\ c # NoCall
        /\ c.op = "APPL_REGISTER"
        /\ ~appl_allocated(St, c.ipcp, c.appl_name)
        /\ IF oops
           THEN /\ Commit(St)
                /\ last' = [op |-> "APPL_REGISTER", ret |-> OOPS, rc |-> c.rc,
                            args |-> [ipcp_id |-> c.ipcp,
                                      appl_name |-> c.appl_name],
                            thread |-> t]
                /\ write_call' = [write_call EXCEPT ![t] = NoCall]
           ELSE IF c.puts = 2
           THEN /\ Commit(St)
                /\ write_call' = [write_call EXCEPT ![t].puts = 1]
                /\ UNCHANGED last
           ELSE /\ \E S \in {appl_register_done(
                                  SetRet(St, 0), c.rc, 2, c.dif_name, FALSE,
                                  c.appl_name, c.ipcp, c.uipcp)} :
                       /\ Commit(S)
                       /\ last' = [op |-> "APPL_REGISTER", ret |-> S.ret,
                                   rc |-> c.rc,
                                   args |-> [ipcp_id |-> c.ipcp,
                                             appl_name |-> c.appl_name],
                                   thread |-> t]
                /\ write_call' = [write_call EXCEPT ![t] = NoCall]
        /\ UNCHANGED nops
        /\ RaceUnchanged

\* The close of device 2, which owns the registrations, and the release of
\* its file once no write() is running on it.
ApplClose == ctrl_close(2)

ApplRelease ==
    /\ \A t \in Threads : write_call[t] # NoCall => write_call[t].rc # 2
    /\ rl_ctrl_release(2)

NextAppl ==
    \/ UnregGet \/ UnregPut \/ UnregTail \/ UnregDangling
    \/ UipcpFaReqArrived \/ FlowIpcpDestroy
    \/ ApplClose \/ ApplRelease
    \/ ApplRemoveWork \/ PolledRead

SpecAppl == InitAppl /\ [][NextAppl]_vars

(***************************************************************************)
(* IPCP_CREATE requests that fail, with a control device subscribed to the *)
(* IPCP updates.                                                           *)
(***************************************************************************)
\* The name of IPCP 0, a DIF type that differs from the one of "d1", a DIF
\* type with no factory, and a request that is in order.
CreateConfigs ==
    {<<"x", "d1", "normal">>, <<"y", "d1", "shim">>, <<"y", "d3", "none">>,
     <<"y", "d1", "normal">>}

\* IPCP_CREATE written by the privileged device; create_ok is the outcome
\* of the create hook of the factory.
CreateReq ==
    \E c \in CreateConfigs, create_ok \in BOOLEAN :
        rl_ctrl_write(1, "IPCP_CREATE",
                      [name |-> c[1], dif_name |-> c[2], dif_type |-> c[3],
                       create_ok |-> create_ok],
                      rl_ipcp_create(St, 1, 1, c[1], c[2], c[3], create_ok))

NextCreate == CreateReq \/ Ioctl \/ IpcpDestroy \/ PolledRead

SpecCreate == InitReg /\ [][NextCreate]_vars

(***************************************************************************)
(* The subscription ioctl in two steps.  rl_ctrl_ioctl() replays the IPCP  *)
(* table with initial_ipcp_update(), under the IPCP table lock, and only   *)
(* after the lock is released it stores the new flags in rc->flags.  The   *)
(* handlers of other devices may run between the two.                      *)
(***************************************************************************)
\* The device that subscribes.
ReplayRcs == {2}

\* The entries whose ADD update the replay appended to the queue of rc:
\* id and name of the entry, S being the state after the replay.
ReplayAdded(S, rc) ==
    {<<S.upqueue[rc][k].f.ipcp_id,
       S.ipcp_table[S.upqueue[rc][k].f.ipcp_id].name>> :
         k \in (Len(upqueue[rc]) + 1)..Len(S.upqueue[rc])}

\* rl_ctrl_ioctl() of a device that turns RL_F_IPCPS on, up to the return
\* of initial_ipcp_update().
IoctlReplay ==
    \E t \in Threads, rc \in ReplayRcs :
        /\ \A u \in Threads : write_call[u] = NoCall
        /\ rc_open[rc] /\ rc_fd[rc]
        /\ rc_flags[rc] # RL_F_IPCPS
        /\ \E S \in {initial_ipcp_update(St, rc, ipcp_scan(St), 1)} :
               /\ Commit(S)
               /\ write_call' =
                      [write_call EXCEPT ![t] =
                          [pc |-> "replayed", op |-> "rl_ctrl_ioctl",
                           rc |-> rc, flags |-> RL_F_IPCPS,
                           scanned |-> {<<id, ipcp_table[id].name>> :
                                           id \in DOMAIN ipcp_table},
                           added |-> ReplayAdded(S, rc)]]
        /\ last' = [op |-> "initial_ipcp_update", ret |-> 0, rc |-> rc]
        /\ UNCHANGED <<jiffies, hist_vars, nops, dealloc_call, flows_lock,
                     drain_call, rio_flow>>

\* The rest of rl_ctrl_ioctl(): rc->flags = flags.
IoctlSetFlags ==
    \E t \in Threads :
        LET c == write_call[t] IN
        /\ c # NoCall
        /\ c.op = "rl_ctrl_ioctl"
        /\ Commit([St EXCEPT !.rc_flags[c.rc] = c.flags])
        /\ last' = [op |-> "rl_ctrl_ioctl", ret |-> 0, rc |-> c.rc,
                    flags |-> c.flags, changed |-> TRUE,
                    scanned |-> c.scanned, added |-> c.added]
        /\ write_call' = [write_call EXCEPT ![t] = NoCall]
        /\ UNCHANGED <<jiffies, hist_vars, nops, dealloc_call, flows_lock,
                     drain_call, rio_flow>>

\* The device turns its subscription off.
IoctlOff ==
    \E rc \in ReplayRcs :
        /\ \A u \in Threads : write_call[u] = NoCall
        /\ rc_flags[rc] = RL_F_IPCPS
        /\ rl_ctrl_ioctl(rc, 0)

\* IPCP_CONFIG of a parameter of the core or of an unknown one.
ReplayIpcpConfig ==
    \E ipcp_id \in IpcpIds, name \in {"mss", "bogus"}, value \in {"2"} :
        rl_ctrl_write(1, "IPCP_CONFIG",
                      [ipcp_id |-> ipcp_id, name |-> name, value |-> value],
                      rl_ipcp_config(St, 1, ipcp_id, name, value))

NextReplay ==
    \/ IoctlReplay \/ IoctlSetFlags \/ IoctlOff
    \/ IpcpCreate \/ ReplayIpcpConfig \/ IpcpDestroy \/ PolledRead

SpecReplay == InitReg /\ [][NextReplay]_vars

(***************************************************************************)
(* dm->flows_lock: flows_putq_drain() step by step, next to threads that   *)
(* run rl_flow_dealloc().  The timer takes the write lock and calls        *)
(* __flow_put(flow, false) twice for each expired flow; a thread takes the *)
(* read lock inside flow_get() and the write lock inside flow_put().  A    *)
(* thread's critical section is one step, taken while the lock is free.    *)
(***************************************************************************)
\* write_unlock_bh(&dm->flows_lock) by the timer.  Releasing a lock that is
\* not held is undefined: it is left free, or it is left unusable.
UnlockOutcomes(lock) == IF lock = "timer" THEN {"free"} ELSE {"free", "corrupt"}

\* FLOCK(dm) at the top of flows_putq_drain().
DrainLock ==
    /\ drain_call = NoCall
    /\ rio_flow = NO_ID
    /\ write_call = [t \in Threads |-> NoCall]
    /\ flows_putq_tmr # NO_EXPIRY
    /\ ~(jiffies < flows_putq_tmr)
    /\ flows_lock = "free"
    /\ flows_lock' = "timer"
    /\ drain_call' = [pc |-> "scan"]
    /\ Commit([St EXCEPT !.flows_putq_tmr = NO_EXPIRY])
    /\ last' = [op |-> "flows_putq_drain", ret |-> 0, at |-> "FLOCK"]
    /\ UNCHANGED <<jiffies, hist_vars, nops, dealloc_call, rio_flow, write_call>>

\* One turn of the loop up to the first __flow_put(), or the end of the
\* callback: the timer is rearmed and the lock released.
DrainScan ==
    /\ drain_call.pc = "scan"
    /\ IF flows_putq # <<>> /\ ~(jiffies < flows[Head(flows_putq)].expires)
       THEN /\ Commit([St EXCEPT !.flows_putq = Tail(@),
                                 !.flows[Head(flows_putq)].expires = NO_EXPIRY])
            /\ drain_call' = [pc |-> "dec", flow |-> Head(flows_putq), n |-> 1]
            /\ last' = [op |-> "flows_putq_drain", ret |-> 0, at |-> "loop"]
            /\ UNCHANGED flows_lock
       ELSE /\ Commit(IF flows_putq # <<>>
                      THEN [St EXCEPT !.flows_putq_tmr =
                                          flows[Head(flows_putq)].expires]
                      ELSE St)
            /\ drain_call' = NoCall
            /\ flows_lock' \in UnlockOutcomes(flows_lock)
            /\ last' = [op |-> "flows_putq_drain", ret |-> 0, at |-> "FUNLOCK",
                        held |-> flows_lock = "timer"]
    /\ UNCHANGED <<jiffies, hist_vars, nops, dealloc_call, rio_flow, write_call>>

\* __flow_put(flow, false) up to the test of atomic_dec_and_test(); when
\* references are left it returns through FUNLOCK(dm), whatever its lock
\* argument.
DrainPutDec ==
    /\ drain_call.pc = "dec"
    /\ LET flow == drain_call.flow
           zero == flows[flow].refcnt - 1 = 0
           next == IF drain_call.n = 1
                   THEN [drain_call EXCEPT !.n = 2] ELSE [pc |-> "scan"]
       IN  /\ Commit([St EXCEPT !.flows[flow].refcnt = @ - 1])
           /\ IF zero
              THEN /\ drain_call' = [drain_call EXCEPT !.pc = "tail"]
                   /\ UNCHANGED flows_lock
                   /\ last' = [op |-> "__flow_put", ret |-> 0, flow |-> flow,
                               zero |-> TRUE, at |-> "dec",
                               held |-> flows_lock = "timer"]
              ELSE /\ drain_call' = next
                   /\ flows_lock' \in UnlockOutcomes(flows_lock)
                   /\ last' = [op |-> "__flow_put", ret |-> 0, flow |-> flow,
                               zero |-> FALSE, at |-> "FUNLOCK",
                               held |-> flows_lock = "timer"]
    /\ UNCHANGED <<jiffies, hist_vars, nops, dealloc_call, rio_flow, write_call>>

\* The rest of __flow_put(flow, false) after the count reached zero.
DrainPutTail ==
    /\ drain_call.pc = "tail"
    /\ \E S \in {flow_put_tail(St, drain_call.flow)} : Commit(S)
    /\ drain_call' = IF drain_call.n = 1
                     THEN [drain_call EXCEPT !.pc = "dec", !.n = 2]
                     ELSE [pc |-> "scan"]
    /\ last' = [op |-> "__flow_put", ret |-> 0, flow |-> drain_call.flow,
                zero |-> TRUE, at |-> "tail", held |-> flows_lock = "timer"]
    /\ UNCHANGED <<jiffies, hist_vars, nops, dealloc_call, flows_lock,
                 rio_flow, write_call>>

\* The critical sections of the threads, entered while the lock is free.
LockedGet == flows_lock = "free" /\ DeallocGet
LockedPut == flows_lock = "free" /\ DeallocPut

NextLock ==
    \/ DrainLock \/ DrainScan \/ DrainPutDec \/ DrainPutTail
    \/ LockedGet \/ DeallocShutdown \/ LockedPut \/ Tick

SpecLock == InitDealloc /\ [][NextLock]_vars

(***************************************************************************)
(* The locks of the module.  Each handler, timer callback and worker is    *)
(* reduced to the sequence of the lock and unlock calls it makes, in the   *)
(* order of its code; a thread runs one sequence at a time and blocks on   *)
(* a lock another thread holds.  dm->difs_lock, dm->appl_removeq_lock and  *)
(* the per-IPCP mutex are left out.                                        *)
(***************************************************************************)
LockEv(fn, l) == <<[a |-> "lock", l |-> l, fn |-> fn]>>
UnlockEv(fn, l) == <<[a |-> "unlock", l |-> l, fn |-> fn]>>
Critical(fn, l, inner) == LockEv(fn, l) \o inner \o UnlockEv(fn, l)

\* rl_dm_get(), rl_dm_getref(dm), rl_dm_put(dm): mutex_lock(&rl_global.lock)
rl_dm_get_locks == Critical("rl_dm_get", "rl_global.lock", <<>>)
rl_dm_getref_locks == Critical("rl_dm_getref", "rl_global.lock", <<>>)
rl_dm_put_locks == Critical("rl_dm_put", "rl_global.lock", <<>>)

\* rl_upqueue_append(rc, rmsg, maysleep): spin_lock(&rc->upqueue_lock)
rl_upqueue_append_locks ==
    Critical("rl_upqueue_append", "upqueue_lock", <<>>)

\* __ipcp_get(dm, ipcp_id) and an __ipcp_put(entry) that leaves references
ipcp_get_locks == Critical("__ipcp_get", "ipcps_lock", <<>>)
ipcp_put_locks == Critical("__ipcp_put", "ipcps_lock", <<>>)

\* ipcp_add_entry(dm, req, pentry) inserting the entry: rl_dm_getref() is
\* called before PUNLOCK(dm).
ipcp_add_entry_locks ==
    Critical("ipcp_add_entry", "ipcps_lock", rl_dm_getref_locks)

\* ipcp_update_all(rc, ipcp_id, update_type)
ipcp_update_all_locks ==
    ipcp_get_locks
    \o Critical("ipcp_update_all", "general_lock", rl_upqueue_append_locks)
    \o ipcp_put_locks

\* rl_ipcp_create(rc, bmsg) creating the IPCP
rl_ipcp_create_locks ==
    ipcp_add_entry_locks \o Critical("ipcp_add", "rl_global.lock", <<>>)
    \o rl_upqueue_append_locks \o ipcp_update_all_locks

\* __ipcp_put(entry) dropping the last reference
ipcp_put_last_locks ==
    Critical("__ipcp_put", "ipcps_lock", <<>>)
    \o Critical("ipcp_probe_references", "regapp_lock", <<>>)
    \o Critical("__ipcp_put", "general_lock", rl_upqueue_append_locks)
    \o rl_dm_put_locks

\* ipcp_application_put(app)
ipcp_application_put_locks ==
    Critical("ipcp_application_put", "regapp_lock", <<>>)

\* rl_ipcp_destroy(rc, bmsg) of an IPCP with a registered application and
\* no other holder
rl_ipcp_destroy_locks ==
    ipcp_get_locks \o ipcp_put_locks
    \o Critical("ipcp_del", "regapp_lock", <<>>)
    \o ipcp_application_put_locks
    \o ipcp_put_last_locks
    \o Critical("rl_ipcp_destroy", "general_lock", rl_upqueue_append_locks)

\* application_del_by_rc(rc) with one IPCP and one application of rc, of
\* which the uipcp is notified
application_del_by_rc_locks ==
    Critical("application_del_by_rc", "ipcps_lock",
             Critical("application_del_by_rc", "regapp_lock", <<>>))
    \o rl_upqueue_append_locks \o ipcp_application_put_locks

\* rl_ctrl_open(inode, f)
rl_ctrl_open_locks ==
    rl_dm_get_locks \o Critical("rl_ctrl_open", "general_lock", <<>>)

\* rl_ctrl_release(inode, f)
rl_ctrl_release_locks ==
    Critical("rl_ctrl_release", "general_lock", <<>>)
    \o application_del_by_rc_locks
    \o Critical("flow_rc_probe_references", "flows_lock", <<>>)
    \o rl_dm_put_locks

\* rl_reg_fetch(rc, b_req) with one IPCP
rl_reg_fetch_locks ==
    Critical("rl_reg_fetch", "ipcps_lock",
             Critical("rl_reg_fetch", "regapp_lock", <<>>))

\* initial_ipcp_update(rc) with one IPCP
initial_ipcp_update_locks ==
    Critical("initial_ipcp_update", "ipcps_lock", rl_upqueue_append_locks)

\* flows_putq_drain(tmr) whose second __flow_put() drops the last reference
\* of a flow that is allocated and was bound: the removal is postponed.
flows_putq_drain_locks ==
    Critical("flows_putq_drain", "flows_lock",
             Critical("__flow_put", "dtp_lock", <<>>))

\* rl_flow_get_stats(rc, bmsg)
rl_flow_get_stats_locks ==
    Critical("flow_get", "flows_lock", <<>>)
    \o Critical("rl_flow_get_stats", "rx_lock",
                Critical("rl_flow_get_stats", "dtp_lock", <<>>))
    \o Critical("__flow_put", "flows_lock", <<>>)
    \o rl_upqueue_append_locks

LockHandlers ==
    {"rl_ctrl_open", "rl_ctrl_release", "rl_ipcp_create", "rl_ipcp_destroy",
     "rl_reg_fetch", "initial_ipcp_update", "flows_putq_drain",
     "rl_flow_get_stats"}

LockScript(op) ==
    CASE op = "rl_ctrl_open" -> rl_ctrl_open_locks
      [] op = "rl_ctrl_release" -> rl_ctrl_release_locks
      [] op = "rl_ipcp_create" -> rl_ipcp_create_locks
      [] op = "rl_ipcp_destroy" -> rl_ipcp_destroy_locks
      [] op = "rl_reg_fetch" -> rl_reg_fetch_locks
      [] op = "initial_ipcp_update" -> initial_ipcp_update_locks
      [] op = "flows_putq_drain" -> flows_putq_drain_locks
      [] op = "rl_flow_get_stats" -> rl_flow_get_stats_locks

InLocks(t) == write_call[t].pc = "locks"
HeldBy(t) == IF InLocks(t) THEN write_call[t].held ELSE <<>>
LockFree(l) == \A t \in Threads : \A k \in 1..Len(HeldBy(t)) : HeldBy(t)[k] # l

RankFrame ==
    UNCHANGED <<ctrl_vars, upq_vars, ipcp_vars, flow_vars, hist_vars, nops,
                dm_refcnt, jiffies, dealloc_call, flows_lock, drain_call,
                rio_flow>>

\* A thread enters a handler.
HandlerEnter ==
    \E t \in Threads, op \in LockHandlers :
        /\ write_call[t] = NoCall
        /\ write_call' = [write_call EXCEPT ![t] =
               [pc |-> "locks", op |-> op, i |-> 1, held |-> <<>>]]
        /\ last' = [op |-> "enter", ret |-> 0, thread |-> t, handler |-> op]
        /\ RankFrame

\* The next call of the handler takes a lock that is free.
LockAcquire ==
    \E t \in Threads :
        /\ InLocks(t)
        /\ write_call[t].i <= Len(LockScript(write_call[t].op))
        /\ LET ev == LockScript(write_call[t].op)[write_call[t].i] IN
           /\ ev.a = "lock"
           /\ LockFree(ev.l)
           /\ write_call' = [write_call EXCEPT
                                ![t].i = @ + 1,
                                ![t].held = Append(@, ev.l)]
           /\ last' = [op |-> "lock", ret |-> 0, thread |-> t, fn |-> ev.fn,
                       lock |-> ev.l, held |-> write_call[t].held]
        /\ RankFrame

\* The next call of the handler releases a lock.
LockRelease ==
    \E t \in Threads :
        /\ InLocks(t)
        /\ write_call[t].i <= Len(LockScript(write_call[t].op))
        /\ LET ev == LockScript(write_call[t].op)[write_call[t].i] IN
           /\ ev.a = "unlock"
           /\ write_call' = [write_call EXCEPT
                                ![t].i = @ + 1,
                                ![t].held = list_remove(@, ev.l)]
           /\ last' = [op |-> "unlock", ret |-> 0, thread |-> t,
                       fn |-> ev.fn, lock |-> ev.l]
        /\ RankFrame

\* The handler returns.
HandlerLeave ==
    \E t \in Threads :
        /\ InLocks(t)
        /\ write_call[t].i > Len(LockScript(write_call[t].op))
        /\ write_call' = [write_call EXCEPT ![t] = NoCall]
        /\ last' = [op |-> "leave", ret |-> 0, thread |-> t]
        /\ RankFrame

NextRank == HandlerEnter \/ LockAcquire \/ LockRelease \/ HandlerLeave

SpecRank == InitReg /\ [][NextRank]_vars

(***************************************************************************)
(* Properties of the upstream queue, checked under SpecUpq.                *)
(***************************************************************************)
RECURSIVE SumOfEntrySizes(_)
SumOfEntrySizes(q) ==
    IF q = <<>> THEN 0
    ELSE Head(q).serlen + UPQENTRY_HDR + SumOfEntrySizes(Tail(q))

\* C1: on every control device upqueue_size equals the sum, over the queued
\* entries, of the serialized length plus the entry header size, and it
\* never exceeds RL_UPQUEUE_SIZE_MAX (16 KiB).
C1_UpqueueSize ==
    \A rc \in Rcs :
        /\ upqueue_size[rc] = SumOfEntrySizes(upqueue[rc])
        /\ upqueue_size[rc] <= 16384

\* A queue filled to the last byte by two entries, after a read took place
\* on the same device.
C1_Witness ==
    \E rc \in Rcs :
        /\ upqueue_size[rc] = RL_UPQUEUE_SIZE_MAX
        /\ Len(upqueue[rc]) = 2
        /\ read_log[rc] # <<>>

IsRead(l) == l.op = "rl_ctrl_read"

\* C2 as stated: every read whose buffer is shorter than the head message
\* fails with ENOBUFS and leaves the queue and its size unchanged.
C2_AsStated ==
    [][(/\ IsRead(last')
        /\ upqueue[last'.rc] # <<>>
        /\ last'.len < Head(upqueue[last'.rc]).serlen)
       => (/\ last'.ret = ENOBUFS
           /\ upqueue' = upqueue
           /\ upqueue_size' = upqueue_size)]_vars

\* C2, amended: a read with a buffer of non-zero length shorter than the
\* head message fails with ENOBUFS, a read of length zero returns 0, and
\* both leave the queue, its order and upqueue_size unchanged; the read
\* that follows a failed short read, with a buffer at least as long as the
\* head message that can be written, returns that head message whole and
\* removes it.
C2_ShortRead ==
    [][/\ (/\ IsRead(last')
           /\ upqueue[last'.rc] # <<>>
           /\ last'.len < Head(upqueue[last'.rc]).serlen)
          => (/\ last'.ret = (IF last'.len = 0 THEN 0 ELSE ENOBUFS)
              /\ upqueue' = upqueue
              /\ upqueue_size' = upqueue_size)
       /\ (/\ IsRead(last) /\ last.ret = ENOBUFS
           /\ IsRead(last') /\ last'.rc = last.rc
           /\ last'.len >= Head(upqueue[last.rc]).serlen
           /\ ~last'.fault)
          => (/\ last'.ret = Head(upqueue[last.rc]).serlen
              /\ read_log'[last.rc] =
                     Append(read_log[last.rc], Head(upqueue[last.rc]))
              /\ upqueue'[last.rc] = Tail(upqueue[last.rc]))]_vars

\* A short read just failed with ENOBUFS on a queue holding two messages.
C2_Witness ==
    /\ IsRead(last)
    /\ last.ret = ENOBUFS
    /\ last.len > 0
    /\ Len(upqueue[last.rc]) = 2

\* C3: on each control device the messages returned by the successful
\* reads, followed by those still queued, are exactly the messages
\* successfully appended, in the order of their appends; each successful
\* read returns one whole message, its return value being that message's
\* serialized length.
C3_Fifo ==
    /\ \A rc \in Rcs : app_log[rc] = read_log[rc] \o upqueue[rc]
    /\ (IsRead(last) /\ last.ret > 0)
       => /\ read_log[last.rc] # <<>>
          /\ last.ret = read_log[last.rc][Len(read_log[last.rc])].serlen

\* Two messages were read from one device and one is still queued, while
\* the other device was appended to in between.
C3_Witness ==
    \E rc \in UpqRcs, other \in UpqRcs :
        /\ rc # other
        /\ Len(read_log[rc]) = 2
        /\ read_log[rc][1].seq = 1
        /\ app_log[other] # <<>>
        /\ app_log[other][1].seq = 2
        /\ read_log[rc][2].seq = 3

(***************************************************************************)
(* Properties of application registration, checked under SpecReg.          *)
(***************************************************************************)
\* The IPCP a request naming dif_name is served by, or NO_ID.
Selected(dif_name) == ipcp_select_by_dif(St, dif_name).val

\* A registration request for dif_name selects an IPCP that can serve it.
Serving(dif_name) ==
    /\ Selected(dif_name) # NO_ID
    /\ \/ ipcp_table[Selected(dif_name)].ops.appl_register
       \/ ipcp_table[Selected(dif_name)].uipcp # NULL

\* The step is a device writing APPL_REGISTER(reg = true) for a name the
\* selected IPCP lists, registered by that same device (same = TRUE) or by
\* a different one (same = FALSE).
RegisterListedStep(same) ==
    /\ last'.op = "APPL_REGISTER"
    /\ last'.args.reg
    /\ Serving(last'.args.dif_name)
    /\ \E i \in 1..Len(ipcp_table[Selected(last'.args.dif_name)].registered_appls) :
           LET app == ipcp_table[Selected(last'.args.dif_name)].registered_appls[i]
           IN  /\ app.name = last'.args.appl_name
               /\ (app.rc = last'.rc) <=> same

RegisterRespFor(l, response) ==
    ApplRegisterResp(l.args.event_id, Selected(l.args.dif_name), TRUE,
                     response, l.args.appl_name)

HasRoom(rc) == upqueue_size[rc] + MsgSerLen + UPQENTRY_HDR <= 16384

\* C6: when a device registers a name the selected IPCP already lists for
\* that same device, ipcp_application_add returns 1, the request succeeds,
\* the IPCP table (the registered lists with each entry's state, event id
\* and refcount, and the IPCP refcounts) is unchanged, and no upstream
\* queue changes except that the requester gets its positive
\* APPL_REGISTER_RESP when its queue has room: nothing is reflected to the
\* uipcp.
C6_ReRegister ==
    [][RegisterListedStep(TRUE)
       => (/\ \A h \in {0, EINVAL} :
                 ipcp_application_add(
                     ipcp_select_by_dif(St, last'.args.dif_name),
                     Selected(last'.args.dif_name), last'.args.appl_name,
                     last'.rc, last'.args.event_id,
                     ipcp_table[Selected(last'.args.dif_name)].uipcp # NULL,
                     h).ret = 1
           /\ last'.ret = 0
           /\ ipcp_table' = ipcp_table
           /\ difs' = difs /\ appl_removeq' = appl_removeq
           /\ \A x \in Rcs \ {last'.rc} : upqueue'[x] = upqueue[x]
           /\ upqueue'[last'.rc] =
                  IF HasRoom(last'.rc)
                  THEN Append(upqueue[last'.rc],
                              RegisterRespFor(last', RLITE_SUCC))
                  ELSE upqueue[last'.rc])]_vars

\* A device has just re-registered, with another event id, a name whose
\* registration is still PENDING: it holds the positive response while the
\* registration keeps its state, event id and single reference.
C6_Witness ==
    /\ last.op = "APPL_REGISTER" /\ last.ret = 0 /\ last.args.reg
    /\ \E id \in DOMAIN ipcp_table :
       \E i \in 1..Len(ipcp_table[id].registered_appls) :
           LET app == ipcp_table[id].registered_appls[i] IN
           /\ app.state = "APPL_REG_PENDING"
           /\ app.refcnt = 1
           /\ app.rc = last.rc
           /\ app.event_id # last.args.event_id
           /\ ipcp_table[id].uipcp # NULL
           /\ \E k \in 1..Len(upqueue[app.rc]) :
                  LET m == upqueue[app.rc][k] IN
                  /\ m.type = "APPL_REGISTER_RESP"
                  /\ m.event_id = last.args.event_id
                  /\ m.f.reg /\ m.f.response = RLITE_SUCC
                  /\ m.f.appl_name = app.name /\ m.f.ipcp_id = id

\* C7 as stated: when a device registers a name the selected IPCP lists for
\* a different device, the requester receives an APPL_REGISTER_RESP with
\* error status, nothing else is enqueued anywhere and the IPCP table, with
\* the existing registration, is unchanged.
C7_AsStated ==
    [][RegisterListedStep(FALSE)
       => (/\ upqueue'[last'.rc] =
                  Append(upqueue[last'.rc], RegisterRespFor(last', RLITE_ERR))
           /\ \A x \in Rcs \ {last'.rc} : upqueue'[x] = upqueue[x]
           /\ ipcp_table' = ipcp_table)]_vars

\* A busy rejection whose response was dropped: device 1 has just asked for
\* a name the only IPCP lists for device 2, write() returned success, and
\* device 1's queue still holds only the request reflected to it as uipcp.
C7_Witness ==
    /\ last.op = "APPL_REGISTER" /\ last.ret = 0 /\ last.args.reg
    /\ last.rc = 1
    /\ DOMAIN ipcp_table = {0}
    /\ Len(ipcp_table[0].registered_appls) = 1
    /\ ipcp_table[0].registered_appls[1].rc = 2
    /\ ipcp_table[0].registered_appls[1].name = last.args.appl_name
    /\ Len(upqueue[1]) = 1
    /\ upqueue[1][1].type = "APPL_REGISTER"
    /\ upqueue[1][1].f.reg

\* The registrations the IPCP lists under the given name.
ListedIn(table, id, appl_name) ==
    IF id \in DOMAIN table
    THEN SelectSeq(table[id].registered_appls, LAMBDA a : a.name = appl_name)
    ELSE <<>>

ListedAs(id, appl_name) == ListedIn(ipcp_table, id, appl_name)

\* The IPCP exists and leaves registration to an attached uipcp.
UipcpMediated(id) ==
    /\ id \in DOMAIN ipcp_table
    /\ ~ipcp_table[id].ops.appl_register
    /\ ipcp_table[id].uipcp # NULL

\* C8 as stated: on an IPCP mediated by a uipcp, APPL_REGISTER(reg = true)
\* for a name not yet listed appends a PENDING registration and enqueues the
\* request to the uipcp; an APPL_REGISTER_RESP for a listed PENDING
\* registration makes it COMPLETE when response = 0 and removes it
\* otherwise, and enqueues the response, with the event id of the
\* registration request, to the registering device.
C8_AsStated ==
    [][/\ (/\ last'.op = "APPL_REGISTER" /\ last'.args.reg
           /\ UipcpMediated(Selected(last'.args.dif_name))
           /\ ListedAs(Selected(last'.args.dif_name), last'.args.appl_name)
                  = <<>>)
          => LET id == Selected(last'.args.dif_name) IN
             /\ ipcp_table'[id].registered_appls =
                    Append(ipcp_table[id].registered_appls,
                           [name |-> last'.args.appl_name, rc |-> last'.rc,
                            event_id |-> last'.args.event_id,
                            state |-> "APPL_REG_PENDING", refcnt |-> 1,
                            ipcp |-> id])
             /\ \E k \in 1..Len(upqueue'[ipcp_table[id].uipcp]) :
                    upqueue'[ipcp_table[id].uipcp][k] =
                        ApplRegister(0, last'.args.dif_name, TRUE,
                                     last'.args.appl_name)
             /\ Len(upqueue'[ipcp_table[id].uipcp]) =
                    Len(upqueue[ipcp_table[id].uipcp]) + 1
       /\ (/\ last'.op = "APPL_REGISTER_RESP" /\ last'.args.reg
           /\ capable(last'.rc)
           /\ UipcpMediated(last'.args.ipcp_id)
           /\ ListedAs(last'.args.ipcp_id, last'.args.appl_name) # <<>>
           /\ ListedAs(last'.args.ipcp_id, last'.args.appl_name)[1].state
                  = "APPL_REG_PENDING")
          => LET id == last'.args.ipcp_id
                 app == ListedAs(id, last'.args.appl_name)[1]
             IN  /\ last'.ret = 0
                 /\ ListedIn(ipcp_table', id, last'.args.appl_name) =
                        IF last'.args.response = 0
                        THEN <<[app EXCEPT !.state = "APPL_REG_COMPLETE"]>>
                        ELSE <<>>
                 /\ upqueue'[app.rc] =
                        Append(upqueue[app.rc],
                               ApplRegisterResp(app.event_id, id, TRUE,
                                                last'.args.response,
                                                app.name))]_vars

\* A registration that was accepted (write() returned success) and is
\* PENDING on the uipcp-mediated IPCP while nothing about it ever reached
\* the uipcp: the uipcp's queue still holds only the earlier request it
\* was full with.
C8_Witness ==
    /\ last.op = "APPL_REGISTER" /\ last.ret = 0 /\ last.args.reg
    /\ UipcpMediated(0)
    /\ Len(ipcp_table[0].registered_appls) = 1
    /\ ipcp_table[0].registered_appls[1].state = "APPL_REG_PENDING"
    /\ ipcp_table[0].registered_appls[1].rc = last.rc
    /\ upqueue[last.rc] = <<>>
    /\ \A k \in 1..Len(upqueue[ipcp_table[0].uipcp]) :
           upqueue[ipcp_table[0].uipcp][k].type # "APPL_REGISTER"

\* The unregistration notices for appl_name held by a queue.
UnregNotices(q, appl_name) ==
    SelectSeq(q, LAMBDA m : /\ m.type = "APPL_REGISTER"
                            /\ ~m.f.reg
                            /\ m.f.appl_name = appl_name)

\* The registrations of device rc that its release must announce: COMPLETE,
\* on an IPCP without appl_register hook whose uipcp is another device.
Announced(rc, id) ==
    SelectSeq(ipcp_table[id].registered_appls,
              LAMBDA a : /\ a.rc = rc
                         /\ a.state = "APPL_REG_COMPLETE"
                         /\ ~ipcp_table[id].ops.appl_register
                         /\ ipcp_table[id].uipcp # NULL
                         /\ ipcp_table[id].uipcp # rc)

\* C9 as stated: when rl_ctrl_release has run for a device, no IPCP lists a
\* registration owned by it any more, and for each of its registrations
\* that was COMPLETE on an IPCP without appl_register hook and with a uipcp
\* attached, exactly one APPL_REGISTER(reg = false) naming the application
\* has been enqueued to that uipcp.
C9_AsStated ==
    [][last'.op = "rl_ctrl_release"
       => (/\ \A id \in DOMAIN ipcp_table' :
                 \A i \in 1..Len(ipcp_table'[id].registered_appls) :
                     ipcp_table'[id].registered_appls[i].rc # last'.rc
           /\ \A id \in DOMAIN ipcp_table :
                 \A i \in 1..Len(Announced(last'.rc, id)) :
                     LET app == Announced(last'.rc, id)[i]
                         uipcp == ipcp_table[id].uipcp
                     IN  Len(UnregNotices(upqueue'[uipcp], app.name)) =
                             Len(UnregNotices(upqueue[uipcp], app.name)) + 1)
      ]_vars

\* Device 2 has been released while it held the COMPLETE registration the
\* uipcp had accepted: the registration is gone from the IPCP, which is
\* still mediated by the uipcp, and the uipcp's full queue holds no
\* unregistration notice.
C9_Witness ==
    /\ last.op = "rl_ctrl_release" /\ last.rc = 2
    /\ UipcpMediated(0)
    /\ ipcp_table[0].registered_appls = <<>>
    /\ Len(last.remove_apps) = 1
    /\ last.remove_apps[1].state = "APPL_REG_COMPLETE"
    /\ last.remove_apps[1].ipcp = 0
    /\ upqueue[ipcp_table[0].uipcp] # <<>>
    /\ \A n \in {"a", "b"} :
           UnregNotices(upqueue[ipcp_table[0].uipcp], n) = <<>>

(***************************************************************************)
(* Properties of flow allocation, checked under SpecFlow.                  *)
(***************************************************************************)
\* The flow linked in the flow table under port_id, or NO_ID.
FlowAt(port_id) == flow_lookup(St, port_id)

\* port_id names a flow created by FA_REQ.
ClientFlow(port_id) ==
    /\ FlowAt(port_id) # NO_ID
    /\ "INITIATOR" \in flows[FlowAt(port_id)].flags

Pending(port_id) ==
    /\ FlowAt(port_id) # NO_ID
    /\ "PENDING" \in flows[FlowAt(port_id)].flags

\* The FA_RESP_ARRIVED messages held by a queue.
FaRespArrivedIn(q) == SelectSeq(q, LAMBDA m : m.type = "FA_RESP_ARRIVED")

\* A step of rl_fa_resp_arrived() on behalf of the uipcp, for a flow that
\* exists.
RespArrivedStep ==
    /\ last'.op = "UIPCP_FA_RESP_ARRIVED"
    /\ last'.args.ipcp_id \in DOMAIN ipcp_table
    /\ FlowAt(last'.args.local_port) # NO_ID

\* Nothing more is delivered by a response for a client-side flow that is
\* no longer PENDING.
NoFurtherDelivery ==
    (/\ RespArrivedStep
     /\ ClientFlow(last'.args.local_port)
     /\ ~Pending(last'.args.local_port))
    => /\ last'.ret = EINVAL
       /\ upqueue' = upqueue

\* The accepting response reaches the initiator: the flow becomes ALLOCATED
\* and the one FA_RESP_ARRIVED is at the tail of the initiator's queue.
AcceptDelivered(port_id) ==
    LET flow == FlowAt(port_id)
        entry == flows[flow]
    IN  /\ last'.ret = 0
        /\ flow \in DOMAIN flows'
        /\ "ALLOCATED" \in flows'[flow].flags
        /\ "PENDING" \notin flows'[flow].flags
        /\ port_id \in DOMAIN flow_table' /\ flow_table'[port_id] = flow
        /\ upqueue' = [upqueue EXCEPT ![entry.upper.rc] =
                           Append(@, FaRespArrived(entry.event_id, port_id, 0))]

\* C4 as stated: an accepting UIPCP_FA_RESP_ARRIVED for a PENDING flow that
\* FA_REQ created makes the flow ALLOCATED and enqueues exactly one
\* FA_RESP_ARRIVED with response 0, the event id of the FA_REQ and the
\* flow's local port to the initiating device; a further response for the
\* flow delivers nothing more.
C4_AsStated ==
    [][/\ (/\ RespArrivedStep
           /\ ClientFlow(last'.args.local_port)
           /\ Pending(last'.args.local_port)
           /\ last'.args.response = 0)
          => AcceptDelivered(last'.args.local_port)
       /\ NoFurtherDelivery]_vars

\* C4, amended: the same when the initiator's queue has room for the
\* message; when it has none the uipcp's write fails with ENOSPC, nothing
\* is enqueued, the flow leaves the put-queue and, unless some other
\* reference than those of its creation is held on it, is unlinked from the
\* flow table and handed to the removal worker.  A further response for the
\* flow delivers nothing.
C4_AcceptResponse ==
    [][/\ (/\ RespArrivedStep
           /\ ClientFlow(last'.args.local_port)
           /\ Pending(last'.args.local_port)
           /\ last'.args.response = 0)
          => LET port_id == last'.args.local_port
                 flow == FlowAt(port_id)
             IN  IF HasRoom(flows[flow].upper.rc)
                 THEN AcceptDelivered(port_id)
                 ELSE /\ last'.ret = ENOSPC
                      /\ upqueue' = upqueue
                      /\ \A i \in 1..Len(flows_putq') : flows_putq'[i] # flow
                      /\ flows[flow].refcnt = 2
                         => /\ port_id \notin DOMAIN flow_table'
                            /\ port_id \notin port_id_bitmap'
                            /\ flows_removeq' = Append(flows_removeq, flow)
       /\ NoFurtherDelivery]_vars

\* The uipcp's accepting response has just been delivered: the flow FA_REQ
\* created is ALLOCATED and the FA_RESP_ARRIVED with response 0 is the last
\* message of the initiator's queue.
C4_Witness ==
    /\ last.op = "UIPCP_FA_RESP_ARRIVED" /\ last.ret = 0
    /\ last.args.response = 0
    /\ ClientFlow(last.args.local_port)
    /\ "ALLOCATED" \in flows[FlowAt(last.args.local_port)].flags
    /\ \E rc \in Rcs :
           /\ upqueue[rc] # <<>>
           /\ upqueue[rc][Len(upqueue[rc])] =
                  FaRespArrived(flows[FlowAt(last.args.local_port)].event_id,
                                last.args.local_port, 0)

\* A refusing FA_RESP written by the device that owns the PENDING flow, with
\* the event id the flow request was announced under.
RefusedByResp ==
    /\ last'.op = "FA_RESP"
    /\ last'.args.response # 0
    /\ Pending(last'.args.port_id)
    /\ flows[FlowAt(last'.args.port_id)].event_id = last'.args.kevent_id
    /\ flows[FlowAt(last'.args.port_id)].upper.rc = last'.rc

\* A refusing response arriving from the uipcp for a PENDING flow.
RefusedByArrival ==
    /\ RespArrivedStep
    /\ last'.args.response # 0
    /\ Pending(last'.args.local_port)

\* The refused flow is released at once: it is not ALLOCATED, it has left
\* the put-queue and, the references of its creation being the only ones,
\* it is unlinked from the flow table with its port-id bit cleared and
\* waits for the removal worker.
RefusedReleased(port_id) ==
    LET flow == FlowAt(port_id) IN
    /\ flow \in DOMAIN flows'
    /\ "ALLOCATED" \notin flows'[flow].flags
    /\ "PENDING" \notin flows'[flow].flags
    /\ "DEL_POSTPONED" \notin flows'[flow].flags
    /\ \A i \in 1..Len(flows_putq') : flows_putq'[i] # flow
    /\ flows[flow].refcnt = 2
       => /\ port_id \notin DOMAIN flow_table'
          /\ port_id \notin port_id_bitmap'
          /\ flows_removeq' = Append(flows_removeq, flow)

Zombies(table) == {id \in DOMAIN table : table[id].zombie}

\* The flows of table fl that belong to IPCP id.
FlowsOf(fl, id) == {flow \in DOMAIN fl : fl[flow].ipcp = id}

\* C10: an IPCP that a successful IPCP_DESTROY leaves in the table is a
\* zombie and stays one for as long as it is in the table; no FA_REQ or
\* APPL_REGISTER selects a zombie through ipcp_select_by_dif, whether the
\* request names its DIF or no DIF, and so no such request gives a zombie a
\* new flow or registration.
C10_ZombieNotSelected ==
    [][/\ (/\ last'.op = "IPCP_DESTROY" /\ last'.ret = 0
           /\ last'.args.ipcp_id \in DOMAIN ipcp_table')
          => last'.args.ipcp_id \in Zombies(ipcp_table')
       /\ \A id \in Zombies(ipcp_table) :
              id \in DOMAIN ipcp_table' => id \in Zombies(ipcp_table')
       /\ last'.op \in {"FA_REQ", "APPL_REGISTER"}
          => /\ Selected(last'.args.dif_name) \notin Zombies(ipcp_table)
             /\ \A id \in Zombies(ipcp_table) \cap DOMAIN ipcp_table' :
                    /\ FlowsOf(flows', id) \subseteq FlowsOf(flows, id)
                    /\ Len(ipcp_table'[id].registered_appls)
                           <= Len(ipcp_table[id].registered_appls)]_vars

\* IPCP 0 of DIF "d1" was destroyed while a flow kept it in the table, and
\* the FA_REQ for "d1" written afterwards found no IPCP: no flow was
\* created for it and its writer got the negative FA_RESP_ARRIVED.
C10_Witness ==
    /\ last.op = "FA_REQ" /\ last.args.dif_name = "d1"
    /\ 0 \in Zombies(ipcp_table)
    /\ ipcp_table[0].dif = "d1"
    /\ uid_cnt = 1
    /\ FlowsOf(flows, 0) = DOMAIN flows /\ DOMAIN flows # {}
    /\ upqueue[last.rc] # <<>>
    /\ upqueue[last.rc][Len(upqueue[last.rc])] =
           FaRespArrived(last.args.event_id, 0, 1)

(***************************************************************************)
(* Port ids and CEP ids.                                                   *)
(***************************************************************************)
\* The flow objects that have not been handed to the removal worker.
LiveFlows ==
    {flow \in DOMAIN flows :
        \A i \in DOMAIN flows_removeq : flows_removeq[i] # flow}

UsesCepIds(flow) == ipcp_table[flows[flow].ipcp].ops.use_cep_ids

LinkedAtPort(p) == {flow \in LiveFlows : flows[flow].local_port = p}

LinkedAtCep(c) ==
    {flow \in LiveFlows : UsesCepIds(flow) /\ flows[flow].local_cep = c}

\* C11: bit p of the port-id bitmap is set exactly when one flow with
\* local port p is linked in the flow table, and the table finds that flow
\* under p; the CEP-id bitmap and the by-CEP table agree in the same way for
\* the flows of the IPCPs that use CEP ids; no two linked flows share a
\* port id or a CEP id.
C11_IdBitmaps ==
    /\ DOMAIN flow_table = port_id_bitmap
    /\ DOMAIN flow_table_by_cep = cep_id_bitmap
    /\ \A p \in 0..(NumPortIds - 1) :
          /\ Cardinality(LinkedAtPort(p)) <= 1
          /\ p \in port_id_bitmap <=> Cardinality(LinkedAtPort(p)) = 1
          /\ p \in port_id_bitmap => flow_table[p] \in LinkedAtPort(p)
    /\ \A c \in 0..(NumCepIds - 1) :
          /\ Cardinality(LinkedAtCep(c)) <= 1
          /\ c \in cep_id_bitmap <=> Cardinality(LinkedAtCep(c)) = 1
          /\ c \in cep_id_bitmap => flow_table_by_cep[c] \in LinkedAtCep(c)

\* One flow is linked under a port id and a CEP id while another one has
\* been unlinked and waits for the removal worker.
C11_Witness ==
    /\ Cardinality(port_id_bitmap) = 1
    /\ cep_id_bitmap # {}
    /\ flows_removeq # <<>>

(***************************************************************************)
(* IPCP reference counts.                                                  *)
(***************************************************************************)
\* C12: every IPCP linked in the table holds at least one reference and
\* its id bit is set, and the set bits are the ids of the linked IPCPs; an
\* IPCP leaves the table only in a step that also clears its id bit, and it
\* never stays in the table with its references gone.
C12_IpcpRefcnt ==
    /\ DOMAIN ipcp_table = ipcp_id_bitmap
    /\ \A id \in DOMAIN ipcp_table : ipcp_table[id].refcnt >= 1

\* IPCP 1 lost its last reference and left the table, while the destroyed
\* IPCP 0 is kept in it by the reference of a flow.
C12_Witness ==
    /\ DOMAIN ipcp_table = {0}
    /\ ipcp_table[0].zombie
    /\ ipcp_table[0].refcnt >= 1
    /\ FlowsOf(flows, 0) # {}

(***************************************************************************)
(* Registered applications.                                                *)
(***************************************************************************)
\* C13: every application of an IPCP's registered_appls list names that
\* IPCP as its own, the IPCP is linked in the table and holds a reference
\* for each entry of the list, the entry holds a reference itself, and no
\* two entries of one list carry the same name, so each registration
\* appears exactly once.
C13_RegisteredOnce ==
    \A id \in DOMAIN ipcp_table :
        LET l == ipcp_table[id].registered_appls IN
        /\ ipcp_table[id].refcnt >= Len(l)
        /\ \A i \in 1..Len(l) :
              /\ l[i].ipcp = id
              /\ l[i].ipcp \in ipcp_id_bitmap
              /\ l[i].refcnt >= 1
              /\ \A j \in 1..Len(l) : l[j].name = l[i].name => j = i

\* A second registration of a name, under another event id, has just been
\* answered: the list of the selected IPCP still holds the name once, and
\* another IPCP lists the same name as well.
C13_Witness ==
    /\ last.op = "APPL_REGISTER" /\ last.args.reg
    /\ \E id \in DOMAIN ipcp_table :
          LET l == ipcp_table[id].registered_appls IN
          /\ Len(l) = 1
          /\ l[1].name = last.args.appl_name
          /\ l[1].event_id # last.args.event_id
          /\ ipcp_table[id].dif = last.args.dif_name
          /\ \E other \in DOMAIN ipcp_table \ {id} :
                 Len(ipcp_table[other].registered_appls) = 1

(***************************************************************************)
(* FLOW_DEALLOC.                                                           *)
(***************************************************************************)
\* A FLOW_DEALLOC returns to its writer in this step.
DeallocReturns ==
    /\ last'.op = "FLOW_DEALLOC"
    /\ \/ nops' # nops /\ dealloc_call' = dealloc_call
       \/ /\ dealloc_call[last'.thread].pc = "put"
          /\ dealloc_call'[last'.thread].pc = "idle"

FdNotices(q) == SelectSeq(q, LAMBDA m : m.type = "FLOW_DEALLOCATED")

\* The flow belongs to an IPCP without flow_deallocated hook whose uipcp is
\* device u, and its local port, remote port and remote address are valid.
Notifiable(flow, u) ==
    LET entry == flows[flow]
        ipcp == ipcp_table[entry.ipcp]
    IN  /\ ~ipcp.ops.flow_deallocated
        /\ ipcp.uipcp = u
        /\ entry.local_port # RL_PORT_ID_NONE
        /\ entry.remote_port # RL_PORT_ID_NONE
        /\ entry.remote_addr # RL_ADDR_NULL

\* The notifications device u is due for the flows of the removal queue.
DueNotices(u) ==
    LET fs == SelectSeq(flows_removeq, LAMBDA flow : Notifiable(flow, u))
    IN  [i \in 1..Len(fs) |-> FlowDeallocated(flows[fs[i]].ipcp, flows[fs[i]])]

\* The removal worker destroys the flows of the removal queue in this step.
RemovalStep == flows_removeq # <<>> /\ flows_removeq' = <<>>

\* C15 as stated: the step that destroys a flow of an IPCP without
\* flow_deallocated hook and with a uipcp enqueues one FLOW_DEALLOCATED to
\* the uipcp if the flow's local port, remote port and remote address are
\* valid, and none otherwise; the flow is unlinked by then, and no other
\* step enqueues a FLOW_DEALLOCATED.
C15_AsStated ==
    [][/\ RemovalStep =>
             /\ \A i \in 1..Len(flows_removeq) :
                    /\ flows_removeq[i] \notin DOMAIN flows'
                    /\ \A p \in DOMAIN flow_table :
                           flow_table[p] # flows_removeq[i]
             /\ \A u \in Rcs \ {NULL} :
                    FdNotices(upqueue'[u])
                        = FdNotices(upqueue[u]) \o DueNotices(u)
       /\ ~RemovalStep =>
             \A u \in Rcs :
                 Len(FdNotices(upqueue'[u])) <= Len(FdNotices(upqueue[u]))]_vars

\* What holds of the notifications: only the removal worker enqueues them,
\* for flows that are already unlinked, no more than the flows it destroys
\* are due, in their order, and all of them when the queue of the uipcp has
\* room for them.
FlowDeallocatedAtRemoval ==
    [][/\ RemovalStep =>
             /\ \A i \in 1..Len(flows_removeq) :
                    /\ flows_removeq[i] \notin DOMAIN flows'
                    /\ \A p \in DOMAIN flow_table :
                           flow_table[p] # flows_removeq[i]
             /\ \A u \in Rcs \ {NULL} :
                    LET old == FdNotices(upqueue[u])
                        new == FdNotices(upqueue'[u])
                        due == DueNotices(u)
                    IN  /\ Len(new) <= Len(old) + Len(due)
                        /\ SubSeq(new, 1, Len(old)) = old
                        /\ \A k \in (Len(old) + 1)..Len(new) :
                               new[k] = due[k - Len(old)]
                        /\ (upqueue_size[u]
                               + Len(due) * (MsgSerLen + UPQENTRY_HDR)
                             <= RL_UPQUEUE_SIZE_MAX) => new = old \o due
       /\ ~RemovalStep =>
             \A u \in Rcs :
                 Len(FdNotices(upqueue'[u])) <= Len(FdNotices(upqueue[u]))]_vars

\* The removal worker has destroyed the allocated flow 0 of IPCP 0, whose
\* ports and remote address were valid, while the queue of the attached
\* uipcp was full: the uipcp holds no FLOW_DEALLOCATED.
C15_Witness ==
    /\ last.op = "flows_removew_func"
    /\ 0 \notin DOMAIN flows
    /\ ipcp_table[0].uipcp = 1 /\ ~ipcp_table[0].ops.flow_deallocated
    /\ upqueue[1] # <<>>
    /\ FdNotices(upqueue[1]) = <<>>
    /\ uid_cnt = 1

(***************************************************************************)
(* The replay of the IPCP table to a new subscriber.                       *)
(***************************************************************************)
\* The ADD updates held by a queue.
AddUpdates(q) ==
    SelectSeq(q, LAMBDA m : m.type = "IPCP_UPDATE" /\ m.f.update_type = "ADD")

\* A device turns the subscription to the IPCP updates on in this step.
SubscribeStep ==
    /\ last'.op = "rl_ctrl_ioctl"
    /\ rc_flags[last'.rc] # RL_F_IPCPS
    /\ rc_flags'[last'.rc] = RL_F_IPCPS

\* The ADD update of IPCP id as ipcp_update_fill() builds it.
AddUpdateOf(id) ==
    IpcpUpdate("ADD", id, ipcp_table[id].dif, ipcp_table[id].dif_ty)

\* C16 as stated: the step in which a device turns the subscription on
\* appends to its queue no ADD update for an IPCP on which IPCP_DESTROY has
\* succeeded, and, when the queue has room for them, one ADD update for
\* each IPCP that was created and not destroyed.
C16_AsStated ==
    [][SubscribeStep =>
          LET old == AddUpdates(upqueue[last'.rc])
              new == AddUpdates(upqueue'[last'.rc])
              live == {id \in DOMAIN ipcp_table : ~ipcp_table[id].zombie}
          IN  /\ SubSeq(new, 1, Len(old)) = old
              /\ \A k \in (Len(old) + 1)..Len(new) : new[k].f.ipcp_id \in live
              /\ (upqueue_size[last'.rc]
                     + Cardinality(live) * (MsgSerLen + UPQENTRY_HDR)
                   <= RL_UPQUEUE_SIZE_MAX)
                    => \A id \in live :
                           Len(SelectSeq(new, LAMBDA m : m = AddUpdateOf(id)))
                             = Len(SelectSeq(old, LAMBDA m : m = AddUpdateOf(id)))
                               + 1]_vars

\* A device has just subscribed and holds the ADD update of an IPCP that was
\* destroyed before and stays in the table as a zombie.
C16_Witness ==
    /\ last.op = "rl_ctrl_ioctl" /\ last.changed /\ last.flags = RL_F_IPCPS
    /\ \E id \in DOMAIN ipcp_table :
          /\ ipcp_table[id].zombie
          /\ upqueue[last.rc] = <<AddUpdateOf(id)>>

(***************************************************************************)
(* FA_RESP with a wrong event id or from a wrong device.                   *)
(***************************************************************************)
InPutq(q, flow) == \E i \in 1..Len(q) : q[i] = flow

\* An FA_RESP step whose port id names a linked flow.
FaRespStep ==
    /\ last'.op = "FA_RESP"
    /\ nops' = nops + 1
    /\ FlowAt(last'.args.port_id) # NO_ID

\* C17 as stated: an FA_RESP whose kevent_id differs from the event id of
\* the flow linked under its port id fails with invalid and leaves the
\* flow as it was: same flags, linked, in the put-queue, same reference
\* count.
C17_AsStated ==
    [][(/\ FaRespStep
        /\ flows[FlowAt(last'.args.port_id)].event_id # last'.args.kevent_id)
       => /\ last'.ret = EINVAL
          /\ flows' = flows
          /\ flow_table' = flow_table
          /\ flows_putq' = flows_putq
          /\ flows_removeq' = flows_removeq]_vars

\* After one FA_REQ, an FA_RESP with the wrong kevent_id has just failed
\* with invalid, and the PENDING flow it named has been unlinked and handed
\* to the removal worker.
C17_Witness ==
    /\ last.op = "FA_RESP" /\ last.ret = EINVAL
    /\ nops = 2
    /\ FlowAt(last.args.port_id) = NO_ID
    /\ \E i \in 1..Len(flows_removeq) :
          LET entry == flows[flows_removeq[i]] IN
          /\ entry.local_port = last.args.port_id
          /\ entry.event_id # last.args.kevent_id
          /\ "PENDING" \in entry.flags
          /\ entry.refcnt = 0

\* C18 as stated: an FA_RESP with the port id and event id of a linked flow,
\* written on a device that is not the owner recorded in the flow (the
\* owner being none once an accept cleared it), is rejected with an error
\* and leaves the flow unchanged; the owner assertion of rl_fa_resp does
\* not fail.
C18_AsStated ==
    [][(/\ FaRespStep
        /\ flows[FlowAt(last'.args.port_id)].event_id = last'.args.kevent_id
        /\ flows[FlowAt(last'.args.port_id)].upper.rc # last'.rc)
       => /\ last'.ret # OOPS
          /\ last'.ret < 0
          /\ flows' = flows
          /\ flow_table' = flow_table
          /\ flows_putq' = flows_putq]_vars

\* The owner assertion has just failed for an FA_RESP that names the port
\* id and event id of a flow owned by another device, or by none after an
\* accept.
C18_Witness ==
    /\ last.op = "FA_RESP" /\ last.ret = OOPS
    /\ FlowAt(last.args.port_id) # NO_ID
    /\ LET entry == flows[FlowAt(last.args.port_id)] IN
       /\ entry.event_id = last.args.kevent_id
       /\ entry.upper.rc # last.rc

(***************************************************************************)
(* FA_REQ on an IPCP without flow_allocate_req hook and without uipcp.     *)
(***************************************************************************)
\* An FA_REQ step that selects an IPCP with neither the hook nor a uipcp,
\* a port id being free.
FaReqNoDeviceStep ==
    /\ last'.op = "FA_REQ"
    /\ nops' = nops + 1
    /\ Selected(last'.args.dif_name) # NO_ID
    /\ ~ipcp_table[Selected(last'.args.dif_name)].ops.flow_allocate_req
    /\ ipcp_table[Selected(last'.args.dif_name)].uipcp = NULL
    /\ port_id_bitmap # 0..(NumPortIds - 1)

NegativeResp(l) == FaRespArrived(l.args.event_id, 0, 1)

CreateExhaustedStep ==
    /\ last'.op = "IPCP_CREATE"
    /\ nops' = nops + 1
    /\ capable(last'.rc)
    /\ ipcp_id_bitmap = 0..(NumIpcpIds - 1)
    /\ \A id \in DOMAIN ipcp_table : ipcp_table[id].name # last'.args.name
    /\ dif_get(St, last'.args.dif_name, last'.args.dif_type).ret = 0

\* The IPCP a flow request is for: the one FA_REQ selects, or the one
\* UIPCP_FA_REQ_ARRIVED names, provided it lists the destination
\* application.
FlowIpcp(l) ==
    IF l.op = "FA_REQ" THEN Selected(l.args.dif_name)
    ELSE IF /\ l.args.ipcp_id \in DOMAIN ipcp_table
            /\ appl_index(St, l.args.ipcp_id, l.args.local_appl) # 0
    THEN l.args.ipcp_id
    ELSE NO_ID

\* A flow request step for a live IPCP while every port id is taken, or
\* every CEP id when the IPCP uses them.
FlowExhaustedStep ==
    /\ last'.op \in {"FA_REQ", "UIPCP_FA_REQ_ARRIVED"}
    /\ nops' = nops + 1
    /\ last'.op = "UIPCP_FA_REQ_ARRIVED" => capable(last'.rc)
    /\ FlowIpcp(last') # NO_ID
    /\ ~ipcp_table[FlowIpcp(last')].zombie
    /\ \/ port_id_bitmap = 0..(NumPortIds - 1)
       \/ /\ ipcp_table[FlowIpcp(last')].ops.use_cep_ids
          /\ cep_id_bitmap = 0..(NumCepIds - 1)

FetchStep ==
    /\ last'.op = "FLOW_FETCH"
    /\ nops' = nops + 1
    /\ \/ last'.args.ipcp_id = NO_ID
       \/ last'.args.ipcp_id \in DOMAIN ipcp_table

\* The flows of the table matching the filter, in table order, as
\* responses with end = 0, followed by the terminator.
MatchingFlows(ipcp_id) ==
    LET order == FlowScanOrder(DOMAIN flow_table)
        kept == SelectSeq(order, LAMBDA p :
                    ipcp_id = NO_ID \/ flows[flow_table[p]].ipcp = ipcp_id)
    IN  [i \in 1..Len(kept) |->
            [end |-> 0, ipcp_id |-> flows[flow_table[kept[i]]].ipcp,
             local_port |-> kept[i],
             remote_port |-> flows[flow_table[kept[i]]].remote_port,
             remote_addr |-> flows[flow_table[kept[i]]].remote_addr]]
        \o <<[end |-> 1, ipcp_id |-> 0, local_port |-> 0, remote_port |-> 0,
              remote_addr |-> 0]>>

\* What is left to deliver to device rc when a FLOW_FETCH with the given
\* filter arrives: the rest of the cycle under way, or a new snapshot.
FetchCycle(rc, ipcp_id) ==
    IF flows_fetch_q[rc] = <<>> THEN MatchingFlows(ipcp_id)
    ELSE flows_fetch_q[rc]

\* The request delivers the next response of the cycle to its device and
\* leaves the rest for the following requests.
FetchDelivers ==
    /\ upqueue'[last'.rc] =
           Append(upqueue[last'.rc],
                  Msg("FLOW_FETCH_RESP", last'.args.event_id,
                      Head(FetchCycle(last'.rc, last'.args.ipcp_id))))
    /\ flows_fetch_q'[last'.rc] =
           Tail(FetchCycle(last'.rc, last'.args.ipcp_id))

\* C21: a FLOW_FETCH that finds the device's fetch queue empty snapshots the
\* matching flows followed by a terminator; that request and each following
\* one delivers the next response of the snapshot, one per request and in
\* order, up to the terminator; nothing but a FLOW_FETCH of the device
\* touches the snapshot, so that flows created meanwhile appear in the next
\* cycle only.
C21_AsStated ==
    [][/\ FetchStep => FetchDelivers
       /\ last'.op # "FLOW_FETCH" => UNCHANGED flows_fetch_q]_vars

\* What holds of FLOW_FETCH: a request that finds room in the queue of its
\* device delivers the next response of the cycle; one that finds none
\* fails with no-space and the response is dropped from the cycle all the
\* same; a request naming an unknown IPCP fails with invalid and changes
\* nothing; no other step touches a fetch queue.
FetchDeliversWithRoom ==
    [][/\ FetchStep /\ HasRoom(last'.rc)
             => FetchDelivers /\ last'.ret = 0
       /\ FetchStep /\ ~HasRoom(last'.rc)
             => /\ last'.ret = ENOSPC
                /\ UNCHANGED upq_vars
                /\ flows_fetch_q'[last'.rc] =
                       Tail(FetchCycle(last'.rc, last'.args.ipcp_id))
       /\ last'.op = "FLOW_FETCH" /\ nops' = nops + 1 /\ ~FetchStep
             => /\ last'.ret = EINVAL
                /\ UNCHANGED <<ctrl_vars, upq_vars, ipcp_vars, flow_vars>>
       /\ last'.op # "FLOW_FETCH" => UNCHANGED flows_fetch_q]_vars

\* The responses with end = 0 in a sequence of queue entries.
FetchedFlows(q) ==
    SelectSeq(q, LAMBDA m : m.type = "FLOW_FETCH_RESP" /\ m.f.end = 0)

\* One flow was requested and then two unfiltered FLOW_FETCH requests were
\* written: the second has just delivered the terminator, and no response
\* describing the flow, which is still in the table, was ever queued to or
\* read by the device.
C21_Witness ==
    /\ last.op = "FLOW_FETCH" /\ last.ret = 0 /\ last.args.ipcp_id = NO_ID
    /\ nops = 3 /\ uid_cnt = 1 /\ DOMAIN flow_table = {0}
    /\ flows_fetch_q[last.rc] = <<>>
    /\ upqueue[last.rc] # <<>>
    /\ upqueue[last.rc][Len(upqueue[last.rc])].type = "FLOW_FETCH_RESP"
    /\ upqueue[last.rc][Len(upqueue[last.rc])].f.end = 1
    /\ FetchedFlows(upqueue[last.rc]) = <<>>
    /\ FetchedFlows(read_log[last.rc]) = <<>>

(***************************************************************************)
(* The DIF list.                                                           *)
(***************************************************************************)
\* The IPCPs of a table that belong to the DIF of the given name.
IpcpsOf(table, dif_name) == {id \in DOMAIN table : table[id].dif = dif_name}

\* Every listed DIF has a name of its own and one reference per IPCP of the
\* table belonging to it, at least one; every IPCP of the table belongs to
\* a listed DIF of its type.
DifsConsistent(table, list) ==
    /\ \A i, j \in 1..Len(list) : list[i].name = list[j].name => i = j
    /\ \A i \in 1..Len(list) :
           /\ list[i].refcnt = Cardinality(IpcpsOf(table, list[i].name))
           /\ list[i].refcnt > 0
    /\ \A id \in DOMAIN table : \E i \in 1..Len(list) :
           list[i].name = table[id].dif /\ list[i].ty = table[id].dif_ty

\* An IPCP_CREATE step by a privileged writer naming a listed DIF with
\* another type than the listed one.
TypeMismatchStep ==
    /\ last'.op = "IPCP_CREATE"
    /\ nops' = nops + 1
    /\ capable(last'.rc)
    /\ \E i \in 1..Len(difs) :
           /\ difs[i].name = last'.args.dif_name
           /\ difs[i].ty # last'.args.dif_type

\* C22: in every state a DIF name is listed at most once, so that it has
\* one type, the reference count of a listed DIF is the number of IPCPs
\* belonging to it and is never 0, a DIF with no IPCP left being off the
\* list; an IPCP_CREATE naming a listed DIF with another type fails with
\* invalid and changes nothing.
C22_DifList ==
    [][/\ DifsConsistent(ipcp_table, difs)
       /\ DifsConsistent(ipcp_table', difs')
       /\ TypeMismatchStep
             => /\ last'.ret = EINVAL
                /\ UNCHANGED <<ctrl_vars, upq_vars, ipcp_vars, flow_vars>>]_vars

\* An IPCP_CREATE of a fresh name has just failed with invalid on the type
\* of DIF "d2", which is listed as a shim DIF, after DIF "d3" was created
\* on demand and a DIF was removed with its last IPCP.
C22_Witness ==
    /\ last.op = "IPCP_CREATE" /\ last.ret = EINVAL
    /\ last.args.name = "z" /\ last.args.dif_type = "normal"
    /\ \A id \in DOMAIN ipcp_table : ipcp_table[id].name # "z"
    /\ \E i \in 1..Len(difs) :
           difs[i].name = last.args.dif_name /\ difs[i].ty = "shim"
    /\ \E i \in 1..Len(difs) : difs[i].name = "d3"
    /\ \A i \in 1..Len(difs) : difs[i].name # "d1"

(***************************************************************************)
(* The capability check of write().                                        *)
(***************************************************************************)
\* The message types reserved to privileged writers.
ReservedTypes ==
    {"IPCP_CREATE", "IPCP_DESTROY", "IPCP_CONFIG", "IPCP_PDUFT_SET",
     "IPCP_PDUFT_FLUSH", "APPL_REGISTER_RESP", "IPCP_UIPCP_SET",
     "UIPCP_FA_REQ_ARRIVED", "UIPCP_FA_RESP_ARRIVED", "FLOW_DEALLOC"}

\* The step is the one the APPL_REGISTER handler makes on the request
\* recorded in l, for some outcome of the IPCP's hook.
RegisterDispatched(l) ==
    \E hook_ret \in {0, EINVAL} :
        \E R \in {rl_appl_register(St, l.rc, l.args.event_id, l.args.dif_name,
                                   l.args.reg, l.args.appl_name, hook_ret)} :
            /\ l.ret = R.ret
            /\ ipcp_table' = R.ipcp_table
            /\ appl_removeq' = R.appl_removeq
            /\ upqueue' = R.upqueue

CoreParams == {"txhdroom", "rxhdroom", "mss", "flow-del-wait-ms"}

\* The parameters the factory of an IPCP knows.
FactoryParams(entry) == IF entry.dif_ty = "normal" THEN {"address"} ELSE {}

\* An IPCP_CONFIG step of a privileged writer for a linked IPCP with a
\* parameter neither its factory nor the core knows.
UnknownParamStep ==
    /\ last'.op = "IPCP_CONFIG"
    /\ nops' = nops + 1
    /\ capable(last'.rc)
    /\ last'.args.ipcp_id \in DOMAIN ipcp_table
    /\ last'.args.name \notin
           CoreParams \cup FactoryParams(ipcp_table[last'.args.ipcp_id])

\* C24 as stated: an IPCP_CONFIG with a parameter neither the factory nor
\* the core knows fails with the unsupported error, changes no IPCP
\* attribute and broadcasts no update.
C24_AsStated ==
    [][UnknownParamStep
          => /\ last'.ret = ENOSYS
             /\ UNCHANGED <<upq_vars, ipcp_vars>>]_vars

\* C24, amended: an IPCP_CONFIG with a parameter neither the factory nor
\* the core knows fails with the invalid error, changes no IPCP attribute
\* nor any other state and broadcasts no update.
C24_UnknownParam ==
    [][UnknownParamStep
          => /\ last'.ret = EINVAL
             /\ UNCHANGED <<ctrl_vars, upq_vars, ipcp_vars, flow_vars>>]_vars

\* Parameter "bogus" has just been refused as invalid for IPCP 1, which
\* has no hook, after its mss was changed and the subscribed device 2 was
\* told.
C24_Witness ==
    /\ last.op = "IPCP_CONFIG" /\ last.ret = EINVAL /\ last.rc = 1
    /\ last.args.name = "bogus" /\ last.args.ipcp_id = 1
    /\ 1 \in DOMAIN ipcp_table
    /\ ~ipcp_table[1].ops.config
    /\ ipcp_table[1].max_sdu_size = 2
    /\ rc_flags[2] = RL_F_IPCPS
    /\ \E i \in 1..Len(upqueue[2]) :
           /\ upqueue[2][i].type = "IPCP_UPDATE"
           /\ upqueue[2][i].f.update_type = "UPD"

(***************************************************************************)
(* The flow-table lock and the last reference of a flow.                   *)
(***************************************************************************)
\* The timer's __flow_put() takes the count of its flow to zero.
TimerDropsLast ==
    /\ drain_call.pc = "dec"
    /\ flows'[drain_call.flow].refcnt = 0

\* The timer executes FUNLOCK(dm).
TimerUnlocks ==
    /\ last'.op \in {"flows_putq_drain", "__flow_put"}
    /\ last'.at = "FUNLOCK"
    /\ drain_call' # drain_call

\* A thread's flow_get() returns the flow with the given object id.
GetReturns(t, flow) ==
    /\ dealloc_call[t] = NoCall
    /\ dealloc_call'[t].pc = "shutdown"
    /\ dealloc_call'[t].flow = flow

\* C25: the timer takes the count of a flow to zero only while it holds
\* the flow-table lock for writing, it releases the lock only while it
\* holds it, and flow_get() never returns a flow whose count had reached
\* zero.
C25_AsStated ==
    [][/\ TimerDropsLast => flows_lock = "timer"
       /\ TimerUnlocks => flows_lock = "timer"
       /\ \A t \in Threads : \A flow \in DOMAIN flows :
              GetReturns(t, flow) => flows[flow].refcnt > 0]_vars

\* The timer has taken the count of flow 0 to zero and is about to detach
\* it; the lock is free and a thread has got the flow from flow_get()
\* meanwhile, raising the count to one.
C25_Witness ==
    /\ drain_call.pc = "tail" /\ drain_call.flow = 0
    /\ flows_lock = "free"
    /\ flows[0].refcnt = 1
    /\ 0 \in DOMAIN flow_table
    /\ \E t \in Threads :
           dealloc_call[t].pc = "shutdown" /\ dealloc_call[t].flow = 0

(***************************************************************************)
(* Postponed removal of an allocated flow.                                 *)
(***************************************************************************)
\* The flow is linked in the flow table at its port.
FlowLinked(table, entries, flow) ==
    /\ entries[flow].local_port \in DOMAIN table
    /\ table[entries[flow].local_port] = flow

\* The step gives back a reference to the flow: the I/O device is closed,
\* or a thread leaves rl_flow_dealloc().
ReleaseStep(flow) ==
    \/ rio_flow = flow /\ rio_flow' = NO_ID
    \/ \E t \in Threads :
           /\ dealloc_call[t] # NoCall
           /\ dealloc_call[t].pc = "put"
           /\ dealloc_call[t].flow = flow
           /\ dealloc_call'[t] = NoCall

\* The flow would be postponed by the release of its last reference.
Postponable(flow) ==
    /\ "ALLOCATED" \in flows[flow].flags
    /\ "NEVER_BOUND" \notin flows[flow].flags
    /\ "DEL_POSTPONED" \notin flows[flow].flags

\* The release of the last reference of a postponable flow leaves it in
\* the tables and queues it for flow_del_wait.
LastReleasePostpones ==
    \A flow \in DOMAIN flows :
        Postponable(flow) /\ flows[flow].refcnt = 1 /\ ReleaseStep(flow)
        => /\ flow \in DOMAIN flows'
           /\ FlowLinked(flow_table', flows', flow)
           /\ flows'[flow].local_port \in port_id_bitmap'
           /\ {"DEALLOCATED", "DEL_POSTPONED"} \subseteq flows'[flow].flags
           /\ \E i \in 1..Len(flows_putq') : flows_putq'[i] = flow
           /\ flows'[flow].expires =
                  jiffies + ipcp_table[flows[flow].ipcp].flow_del_wait
           /\ flows_putq_tmr' # NO_EXPIRY
           /\ ~(flows'[flow].expires < flows_putq_tmr')
           /\ \A i \in 1..Len(flows_removeq') : flows_removeq'[i] # flow

\* A postponed flow leaves the flow table only once the timer has taken
\* it off the put-queue: in the timer callback at or after its expiry, or
\* in a later release.
UnlinkedAfterExpiry ==
    \A flow \in DOMAIN flows :
        /\ "DEL_POSTPONED" \in flows[flow].flags
        /\ FlowLinked(flow_table, flows, flow)
        /\ ~(flow \in DOMAIN flows' /\ FlowLinked(flow_table', flows', flow))
        => \/ flows[flow].expires = NO_EXPIRY
           \/ /\ last'.op = "flows_putq_drain"
              /\ ~(jiffies < flows[flow].expires)

\* A flow that has been postponed is not queued again.
PostponedOnce ==
    \A flow \in DOMAIN flows :
        /\ "DEL_POSTPONED" \in flows[flow].flags
        /\ flows[flow].expires = NO_EXPIRY
        /\ flow \in DOMAIN flows'
        => flows'[flow].expires = NO_EXPIRY

\* C26: the release of the last reference of a flow that is ALLOCATED,
\* not NEVER_BOUND and not DEL_POSTPONED leaves the flow in the flow table
\* with its port bit set, flagged DEALLOCATED and DEL_POSTPONED and queued
\* in the put-queue with expiry now + flow_del_wait; a postponed flow is
\* unlinked only by the release that follows the expiry of the timer, and
\* it is postponed once.
C26_AsStated ==
    [][LastReleasePostpones /\ UnlinkedAfterExpiry /\ PostponedOnce]_vars

\* What holds of every step: the postponement itself.
PostponementHolds == [][LastReleasePostpones /\ PostponedOnce]_vars

\* Flow 0 was postponed by flow_make_mortal() after the timer had already
\* dropped the references of the put-queue, and the close of the I/O
\* device has unlinked it and queued it for destruction while it is still
\* in the put-queue, before its expiry.
C26_Witness ==
    /\ last.op = "rl_io_release" /\ last.flow = 0
    /\ 0 \in DOMAIN flows
    /\ "DEL_POSTPONED" \in flows[0].flags
    /\ ~FlowLinked(flow_table, flows, 0)
    /\ flows_removeq = <<0>>
    /\ \E i \in 1..Len(flows_putq) : flows_putq[i] = 0
    /\ jiffies < flows[0].expires

(***************************************************************************)
(* The sweep of the flows that are never bound.                            *)
(***************************************************************************)
\* The flow is waiting in the put-queue as created by flow_add(), and its
\* timeout falls within the bound of the clock.
AwaitsSweep(flow) ==
    /\ flow \in DOMAIN flows
    /\ "NEVER_BOUND" \in flows[flow].flags
    /\ flows[flow].expires # NO_EXPIRY
    /\ flows[flow].expires <= MaxJiffies

\* The flow entry has been destroyed and nothing points to it.
FlowGone(flow) ==
    /\ flow \notin DOMAIN flows
    /\ \A i \in 1..Len(flows_putq) : flows_putq[i] # flow
    /\ \A i \in 1..Len(flows_removeq) : flows_removeq[i] # flow
    /\ \A p \in DOMAIN flow_table : flow_table[p] # flow

\* The put-queue timer is pending and fires no later than the head of the
\* put-queue expires.
TimerArmed ==
    flows_putq # <<>>
    => /\ flows_putq_tmr # NO_EXPIRY
       /\ flows_putq_tmr <= flows[Head(flows_putq)].expires

\* The timer callback takes a flow off the put-queue at or after its
\* expiry, and a flow entry is destroyed by the removal worker only,
\* unlinked and with its port free or in use by another flow.
SweptInOrder ==
    \A flow \in DOMAIN flows :
        /\ flows[flow].expires # NO_EXPIRY /\ flow \in DOMAIN flows'
           /\ flows'[flow].expires = NO_EXPIRY
           /\ last'.op = "flows_putq_drain"
           => ~(jiffies < flows[flow].expires)
        /\ flow \notin DOMAIN flows'
           => /\ last'.op = "flows_removew_func"
              /\ flows[flow].refcnt = 0
              /\ \E i \in 1..Len(flows_removeq) : flows_removeq[i] = flow
              /\ ~FlowLinked(flow_table, flows, flow)
              /\ \/ flows[flow].local_port \notin port_id_bitmap
                 \/ \E other \in DOMAIN flows \ {flow} :
                        /\ flows[other].local_port = flows[flow].local_port
                        /\ FlowLinked(flow_table, flows, other)

\* C27: a flow created by flow_add() that is never made mortal is
\* eventually taken off the put-queue, unlinked from the flow table with
\* its port freed and destroyed by the removal worker, given that the
\* timer and the worker eventually run; and while the put-queue is not
\* empty the timer is armed no later than the expiry of its head.
C27_AsStated ==
    /\ []TimerArmed
    /\ [][SweptInOrder]_vars
    /\ \A flow \in Uids : AwaitsSweep(flow) ~> FlowGone(flow)

\* Flow 0 was never bound and the timer has taken it off the put-queue at
\* its timeout, but a reference is left that nobody will give back: the
\* flow stays in the flow table with its port, and nothing is pending.
C27_Witness ==
    /\ last.op = "flows_putq_drain"
    /\ 0 \in DOMAIN flows
    /\ "NEVER_BOUND" \in flows[0].flags
    /\ flows[0].expires = NO_EXPIRY /\ flows[0].refcnt = 1
    /\ FlowLinked(flow_table, flows, 0)
    /\ flows[0].local_port \in port_id_bitmap
    /\ flows_putq = <<>> /\ flows_removeq = <<>>
    /\ flows_putq_tmr = NO_EXPIRY

(***************************************************************************)
(* The life cycle of a flow: PENDING, then ALLOCATED or refused, then      *)
(* DEALLOCATED.                                                            *)
(***************************************************************************)
\* The step is an accepting response written for the port of the flow.
AcceptingResponse(flow) ==
    /\ nops' = nops + 1
    /\ \/ /\ last'.op = "FA_RESP"
          /\ last'.args.port_id = flows[flow].local_port
       \/ /\ last'.op = "UIPCP_FA_RESP_ARRIVED"
          /\ last'.args.local_port = flows[flow].local_port
    /\ last'.args.response = 0

FlagsMoveForward ==
    \A flow \in DOMAIN flows' :
        IF flow \notin DOMAIN flows
        THEN "ALLOCATED" \notin flows'[flow].flags
        ELSE /\ "ALLOCATED" \notin flows[flow].flags
                /\ "ALLOCATED" \in flows'[flow].flags
                => /\ AcceptingResponse(flow)
                   /\ "PENDING" \in flows[flow].flags
                   /\ FlowLinked(flow_table, flows, flow)
             /\ "PENDING" \notin flows[flow].flags
                => "PENDING" \notin flows'[flow].flags
             /\ "PENDING" \notin flows[flow].flags
                /\ "ALLOCATED" \notin flows[flow].flags
                => "ALLOCATED" \notin flows'[flow].flags
             /\ "DEALLOCATED" \in flows[flow].flags
                => "DEALLOCATED" \in flows'[flow].flags

\* C28: the state of a flow only moves forward.  ALLOCATED is set only by
\* an accepting FA_RESP or UIPCP_FA_RESP_ARRIVED on a flow that is PENDING
\* at that moment, a flow is never PENDING and ALLOCATED at once, PENDING
\* is never set again once cleared, a refused flow never becomes
\* ALLOCATED, and DEALLOCATED is never cleared once set.
C28_FlowState ==
    [][/\ FlagsMoveForward
       /\ \A flow \in DOMAIN flows' :
              ~({"PENDING", "ALLOCATED"} \subseteq flows'[flow].flags)]_vars

\* An accepting FA_RESP has just allocated the flow on its port, which an
\* earlier UIPCP_FA_REQ_ARRIVED had created PENDING.
C28_Witness ==
    /\ last.op = "FA_RESP" /\ last.ret = 0 /\ last.args.response = 0
    /\ \E flow \in DOMAIN flows :
           /\ flows[flow].local_port = last.args.port_id
           /\ FlowLinked(flow_table, flows, flow)
           /\ "ALLOCATED" \in flows[flow].flags
           /\ "PENDING" \notin flows[flow].flags
           /\ "DEALLOCATED" \notin flows[flow].flags

(***************************************************************************)
(* The error path of rl_fa_req().                                          *)
(***************************************************************************)
\* FA_REQ has created a flow and failed afterwards: it returns an error,
\* or it has queued the negative response for the requester.
FaReqFailedStep ==
    /\ nops' = nops + 1
    /\ last'.op = "FA_REQ"
    /\ uid_cnt' = uid_cnt + 1
    /\ \/ last'.ret # 0
       \/ /\ Len(upqueue'[last'.rc]) = Len(upqueue[last'.rc]) + 1
          /\ upqueue'[last'.rc][Len(upqueue'[last'.rc])].type =
                 "FA_RESP_ARRIVED"
          /\ upqueue'[last'.rc][Len(upqueue'[last'.rc])].f.response # 0

\* The flow is out of the put-queue and of the flow table, and its port is
\* free.
FlowReleased(flow) ==
    \/ flow \notin DOMAIN flows'
    \/ /\ \A i \in 1..Len(flows_putq') : flows_putq'[i] # flow
       /\ ~FlowLinked(flow_table', flows', flow)
       /\ flows'[flow].local_port \notin port_id_bitmap'

\* C29: when FA_REQ fails after it has created its flow, the flow is
\* released before the handler returns: it is out of the put-queue,
\* unlinked from the flow table and its port-id bit is clear, and no
\* PENDING flow is left behind.
C29_AsStated == [][FaReqFailedStep => FlowReleased(uid_cnt)]_vars

\* FA_REQ of device 2 could not be reflected to the uipcp and the
\* negative response is queued for device 2, but the flow created for the
\* request is still PENDING in the flow table and in the put-queue.
C29_Witness ==
    /\ last.op = "FA_REQ" /\ last.rc = 2 /\ last.ret = 0
    /\ upqueue[2] # <<>>
    /\ upqueue[2][Len(upqueue[2])].type = "FA_RESP_ARRIVED"
    /\ upqueue[2][Len(upqueue[2])].f.response # 0
    /\ \E flow \in DOMAIN flows :
           /\ flow = uid_cnt - 1
           /\ "PENDING" \in flows[flow].flags
           /\ FlowLinked(flow_table, flows, flow)
           /\ flows[flow].local_port \in port_id_bitmap
           /\ \E i \in 1..Len(flows_putq) : flows_putq[i] = flow
           /\ flows[flow].refcnt = 2

(***************************************************************************)
(* A ZOMBIE IPCP while handlers of other control devices are running.      *)
(***************************************************************************)
\* C30: however IPCP_DESTROY interleaves with the APPL_REGISTER, FA_REQ
\* and UIPCP_FA_REQ_ARRIVED handlers of other control devices, an IPCP
\* that is flagged ZOMBIE gets no registration and no flow: its list of
\* registered applications stays empty and its flows do not grow.
C30_AsStated ==
    [][\A ipcp_id \in DOMAIN ipcp_table \cap DOMAIN ipcp_table' :
           ipcp_table[ipcp_id].zombie /\ ipcp_table'[ipcp_id].zombie
           => /\ ipcp_table'[ipcp_id].registered_appls = <<>>
              /\ FlowsOf(flows', ipcp_id) \subseteq FlowsOf(flows, ipcp_id)]_vars

\* What holds of flows when the flag test and the insertion of flow_add()
\* are one step: flow_add() refuses a ZOMBIE IPCP.  (The test is made
\* before FLOCK is taken, so this says nothing of a destroy between the
\* test and the insertion.)
ZombieGetsNoFlow ==
    [][\A ipcp_id \in DOMAIN ipcp_table \cap DOMAIN ipcp_table' :
           ipcp_table[ipcp_id].zombie /\ ipcp_table'[ipcp_id].zombie
           => FlowsOf(flows', ipcp_id) \subseteq FlowsOf(flows, ipcp_id)]_vars

\* IPCP 0 was destroyed between the lookup and the addition of an
\* APPL_REGISTER of device 2: it is ZOMBIE and application "b" is
\* registered to it.
C30_Witness ==
    /\ last.op = "APPL_REGISTER" /\ last.rc = 2
    /\ last.args.ipcp_id = 0 /\ last.args.appl_name = "b"
    /\ 0 \in DOMAIN ipcp_table
    /\ ipcp_table[0].zombie
    /\ \E i \in 1..Len(ipcp_table[0].registered_appls) :
           /\ ipcp_table[0].registered_appls[i].name = "b"
           /\ ipcp_table[0].registered_appls[i].rc = 2

(***************************************************************************)
(* The replay of the IPCP table next to handlers of other devices.         *)
(***************************************************************************)
\* The updates other than ADD held by a queue.
LaterUpdates(q) ==
    SelectSeq(q, LAMBDA m : m.type = "IPCP_UPDATE" /\ m.f.update_type # "ADD")

\* The IPCPs linked in the table after the step, by id and name.
PresentAfter == {<<id, ipcp_table'[id].name>> : id \in DOMAIN ipcp_table'}

\* Every IPCP in the table when the subscription turns on has had its ADD
\* update placed in the queue by the replay.
ReplayedAll == SubscribeStep => PresentAfter \subseteq last'.added

\* A device that is not subscribed is sent no UPD, DEL or UIPCP_DEL update:
\* such an update can only follow the replayed ADD updates.
NoneBeforeReplay ==
    \A rc \in Rcs :
        rc_flags[rc] # RL_F_IPCPS
        => Len(LaterUpdates(upqueue'[rc])) <= Len(LaterUpdates(upqueue[rc]))

\* C31: for every IPCP in the IPCP table when a device turns its
\* subscription on, the replayed ADD update is in the queue of the device
\* ahead of every UPD, DEL and UIPCP_DEL update about that IPCP, however
\* the ioctl interleaves with IPCP_CREATE, IPCP_CONFIG and IPCP_DESTROY.
C31_AsStated == [][ReplayedAll /\ NoneBeforeReplay]_vars

\* What holds: no update precedes the replay.
C31_NoneBeforeReplay == [][NoneBeforeReplay]_vars

\* The same for a replay whose ADD updates all found room in the queue.
ReplayedAllWithRoom ==
    [][(SubscribeStep /\ last'.scanned = last'.added) => ReplayedAll]_vars

\* The IPCPs in the table when the replay scans it, instead of when the
\* flags are stored.
ReplayedAllScanned ==
    [][SubscribeStep => last'.scanned \subseteq last'.added]_vars

\* Device 2 has subscribed, IPCP "y" was created between the replay and
\* the assignment of the flags, and the queue of the device holds an UPD
\* update about it and no ADD update.
C31_Witness ==
    /\ last.op = "IPCP_CONFIG" /\ last.ret = 0
    /\ rc_flags[2] = RL_F_IPCPS
    /\ \E id \in DOMAIN ipcp_table :
          /\ ipcp_table[id].name = "y"
          /\ upqueue[2] = <<IpcpUpdate("UPD", id, ipcp_table[id].dif,
                                       ipcp_table[id].dif_ty)>>

(***************************************************************************)
(* The life of a destroyed IPCP.                                           *)
(***************************************************************************)
\* The references held on IPCP id: one for each flow it supports, one for
\* each flow it is the upper IPCP of, one for each registration in its list
\* and one for each registration waiting for appl_del().
Holders(id) ==
    Cardinality(FlowsOf(flows, id))
      + Cardinality({flow \in DOMAIN flows : flows[flow].upper.ipcp = id})
      + Len(ipcp_table[id].registered_appls)
      + Cardinality({i \in 1..Len(appl_removeq) : appl_removeq[i].ipcp = id})

\* A ZOMBIE IPCP is linked with exactly the references of its holders, and
\* whatever holds a reference on an IPCP finds it linked.
ZombieHeld ==
    /\ \A id \in Zombies(ipcp_table) :
          /\ ipcp_table[id].refcnt = Holders(id)
          /\ ipcp_table[id].refcnt >= 1
    /\ \A flow \in DOMAIN flows : flows[flow].ipcp \in DOMAIN ipcp_table
    /\ \A i \in 1..Len(appl_removeq) :
          appl_removeq[i].ipcp \in DOMAIN ipcp_table

\* The DEL updates about IPCP id held by a queue.
DelUpdates(q, id) ==
    SelectSeq(q, LAMBDA m : /\ m.type = "IPCP_UPDATE"
                            /\ m.f.update_type = "DEL"
                            /\ m.f.ipcp_id = id)

\* The references of the DIF of that name.
DifRefcnt(list, dif_name) ==
    IF \E i \in 1..Len(list) : list[i].name = dif_name
    THEN (CHOOSE d \in {list[i] : i \in 1..Len(list)} :
              d.name = dif_name).refcnt
    ELSE 0

\* The IPCPs that leave the table in this step.
Unlinked == DOMAIN ipcp_table \ DOMAIN ipcp_table'

\* Only a destroyed IPCP is unlinked, and the step that unlinks it clears
\* its id bit and drops its DIF reference.
UnlinkFrees ==
    \A id \in Unlinked :
        /\ \/ ipcp_table[id].zombie
           \/ /\ last'.op = "IPCP_DESTROY" /\ last'.ret = 0
              /\ last'.args.ipcp_id = id
        /\ id \notin ipcp_id_bitmap'
        /\ DifRefcnt(difs', ipcp_table[id].dif)
             = DifRefcnt(difs, ipcp_table[id].dif)
                 - Cardinality({o \in Unlinked :
                                    ipcp_table[o].dif = ipcp_table[id].dif})

\* The DEL update about an IPCP is appended once to each subscribed device
\* in the step that unlinks it, and in no other step.
DelBroadcast ==
    \A id \in IpcpIds, rc \in Rcs :
        Len(DelUpdates(upqueue'[rc], id)) =
            Len(DelUpdates(upqueue[rc], id))
              - (IF last'.op = "rl_ctrl_read" /\ last'.rc = rc
                    /\ last'.ret > 0 /\ DelUpdates(<<Head(upqueue[rc])>>, id) # <<>>
                 THEN 1 ELSE 0)
              + (IF id \in Unlinked /\ rc_open[rc] /\ rc_flags[rc] = RL_F_IPCPS
                 THEN 1 ELSE 0)

\* The holders of the ZOMBIE IPCP id are flows that the timer will sweep
\* within the bound of the clock, flows waiting for the removal worker and
\* registrations waiting for appl_del().
HoldersLeaving(id) ==
    /\ id \in Zombies(ipcp_table)
    /\ ipcp_table[id].registered_appls = <<>>
    /\ \A flow \in FlowsOf(flows, id) :
          \/ \E i \in 1..Len(flows_removeq) : flows_removeq[i] = flow
          \/ AwaitsSweep(flow)

\* C32: an IPCP on which IPCP_DESTROY succeeded stays in the table, ZOMBIE,
\* exactly as long as a flow, a registration or a handler holds a reference
\* on it; when these are given back it is eventually unlinked, its id bit
\* cleared and its DIF reference dropped, and one DEL update about it is
\* appended to each subscribed control device.
C32_AsStated ==
    /\ []ZombieHeld
    /\ [][UnlinkFrees /\ DelBroadcast]_vars
    /\ \A id \in IpcpIds : HoldersLeaving(id) ~> id \notin DOMAIN ipcp_table

\* What holds: the references, the unlinking and its liveness.
ZombieUnlinked ==
    /\ []ZombieHeld
    /\ [][UnlinkFrees]_vars
    /\ \A id \in IpcpIds : HoldersLeaving(id) ~> id \notin DOMAIN ipcp_table

\* The removal worker has destroyed the last flow of the ZOMBIE IPCP 0 and
\* unlinked the IPCP, while the queue of the subscribed device 2 was full:
\* the device holds no DEL update about IPCP 0.
C32_Witness ==
    /\ last.op = "flows_removew_func"
    /\ 0 \notin DOMAIN ipcp_table
    /\ 0 \notin ipcp_id_bitmap
    /\ rc_open[2] /\ rc_flags[2] = RL_F_IPCPS
    /\ upqueue[2] # <<>>
    /\ DelUpdates(upqueue[2], 0) = <<>>
    /\ \A k \in 1..Len(upqueue[2]) : upqueue[2][k].type = "IPCP_UPDATE"

(***************************************************************************)
(* The reference a flow holds on the file of its control device.           *)
(***************************************************************************)
\* The flows whose upper.rc is the control device rc.
FlowsOfRc(fl, rc) == {flow \in DOMAIN fl : fl[flow].upper.rc = rc}

\* The count of the file of each control device is the descriptor of its
\* process, if still open, and one reference for each flow whose upper.rc
\* is the device; an ALLOCATED flow has no upper.rc.
FileRefsHeld ==
    /\ \A rc \in Rcs :
          rc_open[rc] =>
              rc_fcnt[rc] = (IF rc_fd[rc] THEN 1 ELSE 0)
                              + Cardinality(FlowsOfRc(flows, rc))
    /\ \A flow \in DOMAIN flows :
          /\ "ALLOCATED" \in flows[flow].flags => flows[flow].upper.rc = NULL
          /\ flows[flow].upper.rc # NULL => rc_open[flows[flow].upper.rc]

\* A flow gives its reference back in the step of the accepting response,
\* which makes it ALLOCATED, or in the step of the removal worker that
\* destroys it, and it never gets an upper.rc after its creation.
FileRefReleased ==
    \A flow \in DOMAIN flows :
        LET rc == flows[flow].upper.rc IN
        /\ flow \in DOMAIN flows' /\ flows'[flow].upper.rc # rc
           => /\ rc # NULL /\ flows'[flow].upper.rc = NULL
              /\ "PENDING" \in flows[flow].flags
              /\ "ALLOCATED" \in flows'[flow].flags
              /\ last'.op \in {"FA_RESP", "UIPCP_FA_RESP_ARRIVED"}
              /\ rc_fcnt'[rc] = rc_fcnt[rc] - 1
        /\ flow \notin DOMAIN flows' /\ rc # NULL
           => /\ last'.op = "flows_removew_func"
              /\ rc_fcnt'[rc] =
                     rc_fcnt[rc] - Cardinality(FlowsOfRc(flows, rc)
                                                 \ DOMAIN flows')

\* C33: a flow holds a reference on the file of a control device exactly
\* when its upper.rc is set, an ALLOCATED flow has no upper.rc, and the
\* reference taken at the creation of the flow is given back once, by the
\* accepting response or by flow_del().
C33_FileRefs == []FileRefsHeld /\ [][FileRefReleased]_vars

\* The accepting FA_RESP of device 2 made its flow ALLOCATED and gave back
\* the reference, while another flow of the device still holds one.
C33_Witness ==
    /\ last.op = "FA_RESP" /\ last.ret = 0 /\ last.rc = 2
    /\ last.args.response = 0
    /\ \E flow \in DOMAIN flows :
          /\ "ALLOCATED" \in flows[flow].flags
          /\ flows[flow].local_port = last.args.port_id
          /\ flows[flow].upper.rc = NULL
    /\ FlowsOfRc(flows, 2) # {}
    /\ rc_fcnt[2] = 2

(***************************************************************************)
(* The uid of the flows that use the same port.                            *)
(***************************************************************************)
\* Two flow entries that hold or held the same port id have different
\* uids.  A flow that left the flow table keeps its entry, with port and
\* uid, until the removal worker destroys it.
UidsDiffer ==
    \A f, g \in DOMAIN flows :
        f # g /\ flows[f].local_port = flows[g].local_port
        => flows[f].uid # flows[g].uid

\* The flow entries that left the flow table and held port_id with uid.
RemovedWith(port_id, uid) ==
    {f \in DOMAIN flows : /\ ~FlowLinked(flow_table, flows, f)
                          /\ flows[f].local_port = port_id
                          /\ flows[f].uid = uid}

\* A FLOW_DEALLOC that carries the port id and the uid of a flow that left
\* the flow table fails with no-device and changes no flow.
StaleDeallocFails ==
    \A t \in Threads :
        LET c == dealloc_call[t]
            d == dealloc_call'[t]
        IN  (c.pc = "shutdown" /\ d.pc = "put"
               /\ RemovedWith(c.port_id, c.uid) # {})
            => d.ret = ENXIO /\ flows' = flows

\* C34: within a DM two flows that hold the same port id, one after the
\* other, have different uids, whether the uid was generated by the DM or
\* is the kevent_id of the uipcp, so that a FLOW_DEALLOC with the port id
\* and uid of a removed flow fails with no-device and changes no flow.
C34_AsStated == []UidsDiffer /\ [][StaleDeallocFails]_vars

\* The same for flows requested by applications only, whose uid is
\* dm->uid_cnt.
ClientUidsDiffer ==
    [](\A f, g \in DOMAIN flows :
          f # g /\ flows[f].uid = f /\ flows[g].uid = g
          => flows[f].uid # flows[g].uid)

\* The flow of a peer's request reported with kevent_id 1 held port 0 and
\* was swept; the flow device 2 requested next got port 0 and uid 1 from
\* the DM and was allocated.  A FLOW_DEALLOC for port 0 and uid 1 has
\* succeeded and marked the new flow.
C34_Witness ==
    /\ last.op = "FLOW_DEALLOC" /\ last.ret = 0
    /\ last.args = DeallocArgs(0, 1)
    /\ \E g \in DOMAIN flows :
          /\ FlowLinked(flow_table, flows, g)
          /\ flows[g].local_port = 0 /\ flows[g].uid = 1 /\ g = 1
          /\ "DEALLOCATED" \in flows[g].flags
    /\ 0 \notin DOMAIN flow_table \/ flow_table[0] # 0

(***************************************************************************)
(* The reference count of the rl_dm, checked under SpecDm.                 *)
(***************************************************************************)
\* rl_dm_empty(dm), the work items being pending while their queues hold
\* entries.
rl_dm_empty ==
    /\ DOMAIN ipcp_table = {} /\ DOMAIN flow_table = {}
    /\ DOMAIN flow_table_by_cep = {} /\ difs = <<>>
    /\ \A rc \in Rcs : ~rc_open[rc]
    /\ appl_removeq = <<>> /\ flows_removeq = <<>> /\ flows_putq = <<>>

\* The holders of the rl_dm: the control devices not yet released and the
\* IPCP entries not yet freed.
DmHolders ==
    Cardinality({rc \in Rcs : rc_open[rc]}) + Cardinality(DOMAIN ipcp_table)

DmRefcntCounts == dm_refcnt = DmHolders

DmEmptyAtZero == dm_refcnt = 0 => rl_dm_empty

\* C35: dm->refcnt is the number of the open control devices plus the number
\* of the IPCP entries not yet freed, and when it is zero the IPCP table,
\* the two flow tables, the DIF list, the list of the control devices, the
\* removal queues and the put-queue are empty: the BUG_ON() of rl_dm_put()
\* does not fail.
C35_DmRefcnt == DmRefcntCounts /\ DmEmptyAtZero

\* The last reference is dropped by the removal worker of the applications,
\* after both control devices were released and both IPCPs destroyed.
C35_Witness ==
    /\ dm_refcnt = 0
    /\ last.op = "appl_removew_func"
    /\ \A rc \in Rcs : ~rc_open[rc]

(***************************************************************************)
(* The order of the locks, checked under SpecRank.                         *)
(***************************************************************************)
\* The ranks of the locks: 1 the process-global mutex, 2 the general mutex
\* of the DM, 3 the spinlock of the IPCP table, 4 the spinlock of the
\* registered applications of an IPCP, 5 the lock of the flows, 6 the locks
\* of the datapath of a flow, 7 the spinlock of the upstream queue.
LockRank(l) ==
    CASE l = "rl_global.lock" -> 1
      [] l = "general_lock" -> 2
      [] l = "ipcps_lock" -> 3
      [] l = "regapp_lock" -> 4
      [] l = "flows_lock" -> 5
      [] l \in {"rx_lock", "dtp_lock"} -> 6
      [] l = "upqueue_lock" -> 7

\* The lock just taken does not rank below a lock the thread holds.
TakenInOrder ==
    last'.op = "lock"
    => \A k \in 1..Len(last'.held) :
           LockRank(last'.held[k]) <= LockRank(last'.lock)

\* C36: every handler, timer callback and worker takes its locks in the
\* order of their ranks: no context takes a lock ranked below one it holds,
\* and in particular none takes the process-global mutex while it holds the
\* spinlock of the IPCP table.
C36_AsStated == [][TakenInOrder]_vars

\* The only lock taken out of order is the process-global mutex that
\* rl_dm_getref() takes inside the critical section of ipcp_add_entry().
TakenInOrderButGetref ==
    [][last'.op = "lock" /\ last'.fn # "rl_dm_getref"
       => \A k \in 1..Len(last'.held) :
              LockRank(last'.held[k]) <= LockRank(last'.lock)]_vars

\* A thread inside rl_ipcp_create holds the spinlock of the IPCP table and,
\* taken after it, the process-global mutex.
C36_Witness ==
    \E t \in Threads :
        /\ InLocks(t)
        /\ write_call[t].op = "rl_ipcp_create"
        /\ write_call[t].held = <<"ipcps_lock", "rl_global.lock">>
        /\ last.op = "lock" /\ last.thread = t

(***************************************************************************)
(* The reference count of a flow next to the put-queue timer.              *)
(***************************************************************************)
InRemoveq(flow) == \E i \in 1..Len(flows_removeq) : flows_removeq[i] = flow

\* The holders of a flow entry: the base reference, which a flow has as
\* long as it waits in the put-queue, the put-queue itself, the bound I/O
\* device and the threads that are inside a handler with the flow.
FlowHolders(flow) ==
    (IF InPutq(flows_putq, flow) THEN 1 ELSE 0)
    + (IF InPutq(flows_putq, flow) THEN 1 ELSE 0)
    + (IF rio_flow = flow THEN 1 ELSE 0)
    + Cardinality({t \in Threads : /\ dealloc_call[t] # NoCall
                                   /\ dealloc_call[t].flow = flow})
    + Cardinality({t \in Threads : /\ write_call[t] # NoCall
                                   /\ write_call[t].pc = "got"
                                   /\ write_call[t].flow = flow})

FlowRefcntCounts ==
    \A flow \in DOMAIN flows :
        /\ flows[flow].refcnt >= 0
        /\ flows[flow].refcnt = FlowHolders(flow)

\* A flow is unlinked and handed to the removal worker once.
RemovedOnce ==
    /\ \A i, j \in 1..Len(flows_removeq) :
           flows_removeq[i] = flows_removeq[j] => i = j
    /\ \A flow \in DOMAIN flows :
           InRemoveq(flow) => ~FlowLinked(flow_table, flows, flow)

\* C37: under the interleavings of the put-queue timer with the handlers of
\* FA_REQ, FA_RESP, UIPCP_FA_REQ_ARRIVED and UIPCP_FA_RESP_ARRIVED, the
\* count of every flow is not negative and is the number of its holders,
\* and a flow is unlinked and queued for removal at most once.
C37_AsStated == FlowRefcntCounts /\ RemovedOnce

\* The timer released a flow between the flow_get() of rl_fa_resp_arrived()
\* and its flows_putq_del(): the handler has dropped references that
\* nobody held.
C37_Witness ==
    /\ last.op = "UIPCP_FA_RESP_ARRIVED" /\ last.ret # 0
    /\ last.flow \in DOMAIN flows
    /\ flows[last.flow].refcnt < 0
    /\ InRemoveq(last.flow)
    /\ flows[last.flow].expires = NO_EXPIRY


(***************************************************************************)
(* Concurrent IPCP_DESTROY requests (SpecDestroy).                         *)
(***************************************************************************)
\* A thread completes, with success, the IPCP_DESTROY of IPCP id that it
\* started.
DestroySucceeds(id) ==
    \E t \in Threads :
        /\ write_call[t] # NoCall
        /\ write_call[t].op = "IPCP_DESTROY"
        /\ write_call[t].ipcp = id
        /\ write_call'[t] = NoCall
        /\ last'.ret = 0

\* Success is given only for an IPCP that no earlier request has made a
\* ZOMBIE.
DestroyedOnce ==
    \A id \in IpcpIds :
        DestroySucceeds(id) =>
            /\ id \in DOMAIN ipcp_table
            /\ ~ipcp_table[id].zombie

\* The count of each IPCP is its creation reference, until a destroy has
\* dropped it, and the references of its holders; nothing is left pointing
\* to an IPCP that was freed.
CreationRefOnce ==
    /\ \A id \in DOMAIN ipcp_table :
           /\ ipcp_table[id].refcnt >= 0
           /\ ipcp_table[id].refcnt =
                  Holders(id) + (IF ipcp_table[id].zombie THEN 0 ELSE 1)
    /\ IpcpsLinked

\* C38: for any IPCP at most one IPCP_DESTROY succeeds, also when several
\* are issued concurrently from different control devices; the creation
\* reference of the IPCP is dropped exactly once and its count never
\* underflows.
C38_AsStated ==
    /\ [][DestroyedOnce]_vars
    /\ []CreationRefOnce

\* A second IPCP_DESTROY has returned 0 for an IPCP that was a ZOMBIE
\* already, and the IPCP has been unlinked while a flow still holds a
\* reference on it.
C38_Witness ==
    /\ last.op = "IPCP_DESTROY"
    /\ last.ret = 0
    /\ "zombie" \in DOMAIN last
    /\ last.zombie
    /\ last.args.ipcp_id \notin DOMAIN ipcp_table
    /\ \E flow \in DOMAIN flows : flows[flow].ipcp = last.args.ipcp_id


(***************************************************************************)
(* Concurrent unregistrations (SpecAppl).                                  *)
(***************************************************************************)
\* The registrations that wait for appl_del().
QueuedAppls == {appl_removeq[i] : i \in 1..Len(appl_removeq)}

\* No registered_appl has a negative count, in the list of its IPCP or in
\* the removal queue.
ApplRefcntNonNeg ==
    /\ \A id \in DOMAIN ipcp_table :
       \A i \in 1..Len(ipcp_table[id].registered_appls) :
           ipcp_table[id].registered_appls[i].refcnt >= 0
    /\ \A app \in QueuedAppls : app.refcnt >= 0

\* A registered_appl is handed to appl_del() once: it is not in the removal
\* queue twice nor while in the list of its IPCP, and no handler is about
\* to put an application that appl_del() has freed.
ApplFreedOnce ==
    /\ \A i, j \in 1..Len(appl_removeq) :
           /\ appl_removeq[i].ipcp = appl_removeq[j].ipcp
           /\ appl_removeq[i].name = appl_removeq[j].name
           => i = j
    /\ \A app \in QueuedAppls :
           app.ipcp \in DOMAIN ipcp_table => appl_index(St, app.ipcp, app.name) = 0
    /\ \A t \in Threads :
           /\ write_call[t] # NoCall
           /\ write_call[t].op = "APPL_REGISTER"
           => appl_allocated(St, write_call[t].ipcp, write_call[t].appl_name)

\* C39: under any interleaving of APPL_REGISTER(reg=false) requests for the
\* same name from different control devices with each other, with the
\* lookups of rl_fa_req_arrived, with IPCP_DESTROY and with the close of
\* the owning device, the count of a registered application never drops
\* below zero and the entry is removed from the list of its IPCP and freed
\* exactly once.
C39_AsStated == ApplRefcntNonNeg /\ ApplFreedOnce

\* An unregistration has returned 0 and the application it removed waits
\* for appl_del() with a negative count.
C39_Witness ==
    /\ last.op = "APPL_REGISTER"
    /\ last.ret = 0
    /\ \E app \in QueuedAppls :
           /\ app.name = last.args.appl_name
           /\ app.refcnt < 0


(***************************************************************************)
(* Failed IPCP_CREATE requests (SpecCreate).                               *)
(***************************************************************************)
\* The step is an IPCP_CREATE that fails in ipcp_add(): the name is taken,
\* the DIF has another type, the DIF type has no factory or the create hook
\* returns no private state.
CreateFailed ==
    /\ nops' = nops + 1
    /\ last'.op = "IPCP_CREATE"
    /\ last'.ret # 0
    /\ (ipcp_add(St, last'.args.name, last'.args.dif_name,
                 last'.args.dif_type, last'.args.create_ok)).ret # 0

\* The failure happened after ipcp_add_entry() had linked the entry.
EntryWasLinked ==
    (ipcp_add_entry(St, last'.args.name, last'.args.dif_name,
                    last'.args.dif_type)).ret = 0

\* The tables of the IPCPs and of the DIFs are as they were.
CreateKeepsTables == UNCHANGED <<ipcp_table, ipcp_id_bitmap, difs>>

\* C40: an IPCP_CREATE that fails (duplicate IPCP name, DIF type mismatch,
\* no factory registered for the DIF type, or the create hook returning no
\* private state) leaves the IPCP table, the IPCP id bitmap and the DIF
\* list as they were and enqueues no message on any control device.
C40_AsStated ==
    [][CreateFailed => CreateKeepsTables /\ UNCHANGED upqueue]_vars

\* What holds: the tables are as they were and the requesting device gets
\* no message; a failure before the entry is linked enqueues nothing.
FailedCreateRestores ==
    [][CreateFailed =>
           /\ CreateKeepsTables
           /\ upqueue'[last'.rc] = upqueue[last'.rc]
           /\ ~EntryWasLinked => UNCHANGED upqueue]_vars

\* An IPCP_CREATE for a DIF type with no factory has failed and the
\* subscribed device 2 holds the DEL update of the entry that was linked
\* in between.
C40_Witness ==
    /\ last.op = "IPCP_CREATE"
    /\ last.ret = ENXIO
    /\ last.args.dif_type = "none"
    /\ ipcp_id_bitmap = {0}
    /\ rc_flags[2] = RL_F_IPCPS
    /\ DelUpdates(upqueue[2], 1) # <<>>

====
